---- MODULE Spec2Model ----
(***************************************************************************)
(* Language discovery and negotiation of the lessons site.                 *)
(*                                                                         *)
(*   src/src/utils/languages.ts    getAvailableLanguages, matchLanguage,   *)
(*                                 getLanguageFromHeader,                  *)
(*                                 getLanguageFromBrowser,                 *)
(*                                 getDefaultLanguage                      *)
(*   src/src/utils/collections.ts  getLessons and its cache                *)
(*   src/src/utils/validators.ts   validateLanguage                        *)
(*   src/src/content/config.ts     config.languages                        *)
(*                                                                         *)
(* A string is a sequence of one-character strings, so that split, trim,   *)
(* toLowerCase, parseFloat and localeCompare are computed character by     *)
(* character as the JavaScript runtime computes them.                      *)
(***************************************************************************)
EXTENDS Integers, Sequences, FiniteSets, TLC

(***************************************************************************)
(* Bounds of the model.                                                    *)
(***************************************************************************)
\* concurrent callers of getAvailableLanguages
NumProcs == 2
\* content items in the store at one time
MaxItems == 3
\* times the content store changes during a run
MaxChanges == 1
\* entries of an Accept-Language header built from EntryPool
MaxEntries == 3
\* entries of an Accept-Language header built from TiePool
MaxTieEntries == 4
\* entries of an Accept-Language header built from RangePool
MaxRangeEntries == 2
\* entries of an Accept-Language header built from TagPool
MaxTagEntries == 2
\* characters of a candidate language code given to validateLanguage
MaxCodeLen == 3
\* characters of a current path built from PathAlphabet
MaxPathLen == 4
\* events dispatched to the language picker and the document
MaxEvents == 3
\* the largest data.order of a lesson
MaxOrder == 2
\* breadcrumbs of a telemetry event
MaxBreadcrumbs == 2
\* entries the console keeps of the telemetry hook
MaxLog == 2

(***************************************************************************)
(* JavaScript values that are not strings or arrays.                       *)
(***************************************************************************)
\* undefined where a string is expected (array[k] past the end)
UNDEFINED == <<"undefined">>
\* null where a string is expected (a null Accept-Language header)
NULL_STRING == <<"null">>
\* the completion of a call that raised instead of returning a string
THROWN == <<"thrown">>
\* null where an array is expected; arrays are [ref, items], ref >= 1
NULL == [ref |-> 0, items |-> <<>>]

(***************************************************************************)
(* Characters.                                                             *)
(***************************************************************************)
Lower == <<"a", "b", "c", "d", "e", "f", "g", "h", "i", "j", "k", "l", "m",
           "n", "o", "p", "q", "r", "s", "t", "u", "v", "w", "x", "y", "z">>
Upper == <<"A", "B", "C", "D", "E", "F", "G", "H", "I", "J", "K", "L", "M",
           "N", "O", "P", "Q", "R", "S", "T", "U", "V", "W", "X", "Y", "Z">>
Digits == <<"0", "1", "2", "3", "4", "5", "6", "7", "8", "9">>

IndexIn(c, table) == CHOOSE i \in 1..Len(table) : table[i] = c
IsIn(c, table) == \E i \in 1..Len(table) : table[i] = c

IsLower(c) == IsIn(c, Lower)
IsUpper(c) == IsIn(c, Upper)
IsDigit(c) == IsIn(c, Digits)
DigitValue(c) == IndexIn(c, Digits) - 1

\* UTF-16 code unit of a character (the ASCII range is all the model uses)
CodeUnit(c) ==
    IF IsLower(c) THEN 96 + IndexIn(c, Lower)
    ELSE IF IsUpper(c) THEN 64 + IndexIn(c, Upper)
    ELSE IF IsDigit(c) THEN 47 + IndexIn(c, Digits)
    ELSE CASE c = " " -> 32
           [] c = "!" -> 33
           [] c = "," -> 44
           [] c = "-" -> 45
           [] c = "." -> 46
           [] c = "/" -> 47
           [] c = ";" -> 59
           [] c = "=" -> 61

(***************************************************************************)
(* String.prototype methods used by the code.                              *)
(***************************************************************************)
\* String.prototype.toLowerCase
ToLowerCase(s) ==
    [i \in 1..Len(s) |-> IF IsUpper(s[i]) THEN Lower[IndexIn(s[i], Upper)] ELSE s[i]]

\* index of the first occurrence of the character sep in s, 0 when absent
FirstIndexOf(s, sep) ==
    IF \E i \in 1..Len(s) : s[i] = sep
    THEN CHOOSE i \in 1..Len(s) : s[i] = sep /\ \A j \in 1..(i - 1) : s[j] # sep
    ELSE 0

\* String.prototype.split with a one-character separator: the array of the
\* pieces between separators; a string without the separator gives [s]
RECURSIVE Split(_, _)
Split(s, sep) ==
    LET i == FirstIndexOf(s, sep)
    IN  IF i = 0 THEN <<s>>
        ELSE <<SubSeq(s, 1, i - 1)>> \o Split(SubSeq(s, i + 1, Len(s)), sep)

\* array[k] for a zero-based k: undefined past the end
At(arr, k) == IF k + 1 <= Len(arr) THEN arr[k + 1] ELSE UNDEFINED

RECURSIVE TrimStart(_)
TrimStart(s) ==
    IF s # <<>> /\ Head(s) = " " THEN TrimStart(Tail(s)) ELSE s

RECURSIVE TrimEnd(_)
TrimEnd(s) ==
    IF s # <<>> /\ s[Len(s)] = " " THEN TrimEnd(SubSeq(s, 1, Len(s) - 1)) ELSE s

\* String.prototype.trim
Trim(s) == TrimEnd(TrimStart(s))

\* JavaScript truthiness of a string, undefined or null
Truthy_NullIsTrue(x) == x # UNDEFINED /\ x # <<>>
Truthy(x) == x # UNDEFINED /\ x # NULL_STRING /\ x # <<>>

(***************************************************************************)
(* Numbers: a quality is NaN or the exact decimal n/d, d a power of ten.   *)
(***************************************************************************)
NaN == [nan |-> TRUE, n |-> 0, d |-> 1]
Num(n, d) == [nan |-> FALSE, n |-> n, d |-> d]

\* length of the longest prefix of s made of decimal digits
RECURSIVE DigitPrefixLen(_)
DigitPrefixLen(s) ==
    IF s # <<>> /\ IsDigit(Head(s)) THEN 1 + DigitPrefixLen(Tail(s)) ELSE 0

RECURSIVE DigitsValue(_)
DigitsValue(s) ==
    IF s = <<>> THEN 0
    ELSE 10 * DigitsValue(SubSeq(s, 1, Len(s) - 1)) + DigitValue(s[Len(s)])

RECURSIVE Pow10(_)
Pow10(k) == IF k = 0 THEN 1 ELSE 10 * Pow10(k - 1)

\* Number.parseFloat: undefined is converted to the string "undefined",
\* leading white space is skipped, then the longest prefix of the form
\* [+-] digits [. digits] is the value; NaN when that prefix has no digit.
\* (exponents and "Infinity" do not occur in the headers of the model)
ParseFloat(x) ==
    IF x = UNDEFINED THEN NaN
    ELSE LET t == TrimStart(x)
             signed == t # <<>> /\ Head(t) \in {"+", "-"}
             sign == IF signed /\ Head(t) = "-" THEN -1 ELSE 1
             body == IF signed THEN Tail(t) ELSE t
             il == DigitPrefixLen(body)
             rest == SubSeq(body, il + 1, Len(body))
             fl == IF rest # <<>> /\ Head(rest) = "." THEN DigitPrefixLen(Tail(rest)) ELSE 0
             digits == SubSeq(body, 1, il) \o SubSeq(rest, 2, fl + 1)
         IN  IF il + fl = 0 THEN NaN
             ELSE Num(sign * DigitsValue(digits), Pow10(fl))

\* sign of the number a - b for two numbers that are not NaN
SignOfDifference(a, b) ==
    LET v == a.n * b.d - b.n * a.d
    IN  IF v < 0 THEN -1 ELSE IF v > 0 THEN 1 ELSE 0

(***************************************************************************)
(* Configuration (src/src/content/config.ts, src/src/constants.ts).        *)
(***************************************************************************)
en == <<"e", "n">>
es == <<"e", "s">>
uk == <<"u", "k">>
fr == <<"f", "r">>
de == <<"d", "e">>

DEFAULT_LANGUAGE == en
SUPPORTED_LANGUAGES == <<en, es, uk, fr, de>>

Elements(arr) == {arr[i] : i \in 1..Len(arr)}
Supported == Elements(SUPPORTED_LANGUAGES)

\* Array.prototype.includes on the supported codes
validateLanguage_IgnoreCase(lang) ==
    \E i \in 1..Len(SUPPORTED_LANGUAGES) : SUPPORTED_LANGUAGES[i] = ToLowerCase(lang)
validateLanguage_AcceptAll(lang) == TRUE
validateLanguage(lang) == \E i \in 1..Len(SUPPORTED_LANGUAGES) : SUPPORTED_LANGUAGES[i] = lang

(***************************************************************************)
(* String.prototype.localeCompare: collation compares the letters first    *)
(* without regard to case (digits before letters, punctuation before       *)
(* digits) and breaks a tie by case, lower case first.                     *)
(***************************************************************************)
PrimaryWeight(c) ==
    IF IsLower(c) THEN 100 + IndexIn(c, Lower)
    ELSE IF IsUpper(c) THEN 100 + IndexIn(c, Upper)
    ELSE IF IsDigit(c) THEN 70 + DigitValue(c)
    ELSE CodeUnit(c)

CaseWeight(c) == IF IsUpper(c) THEN 1 ELSE 0

\* lexicographic comparison of two sequences of integers: -1, 0 or 1
RECURSIVE LexCompare(_, _)
LexCompare(a, b) ==
    IF a = <<>> /\ b = <<>> THEN 0
    ELSE IF a = <<>> THEN -1
    ELSE IF b = <<>> THEN 1
    ELSE IF Head(a) < Head(b) THEN -1
    ELSE IF Head(a) > Head(b) THEN 1
    ELSE LexCompare(Tail(a), Tail(b))

PrimaryWeights(s) == [i \in 1..Len(s) |-> PrimaryWeight(s[i])]

CaseWeights(s) == [i \in 1..Len(s) |-> CaseWeight(s[i])]

LocaleCompare(a, b) ==
    LET primary == LexCompare(PrimaryWeights(a), PrimaryWeights(b))
    IN  IF primary # 0 THEN primary
        ELSE LexCompare(CaseWeights(a), CaseWeights(b))

(***************************************************************************)
(* The scan of getAvailableLanguages (languages.ts:25-41).                 *)
(***************************************************************************)
\* lesson.id.split('/')[0]
LanguageOfId(id) == At(Split(id, "/"), 0)

\* Set.prototype.add: a set keeps insertion order and ignores a repeat
SetAdd(set, x) == IF x \in Elements(set) THEN set ELSE Append(set, x)

\* the forEach of lines 27-39: the Set of accepted codes, in insertion order
RECURSIVE CollectLanguages(_, _)
CollectLanguages(ids, languages) ==
    IF ids = <<>> THEN languages
    ELSE LET lang == LanguageOfId(Head(ids))
         IN  IF Truthy(lang) /\ validateLanguage(lang)
             THEN CollectLanguages(Tail(ids), SetAdd(languages, lang))
             ELSE CollectLanguages(Tail(ids), languages)

\* the console.warn calls of lines 31-35, one for each id dropped
Warnings_None(ids) == <<>>
RECURSIVE Warnings(_)
Warnings(ids) ==
    IF ids = <<>> THEN <<>>
    ELSE LET lang == LanguageOfId(Head(ids))
         IN  IF Truthy(lang) /\ ~validateLanguage(lang)
             THEN <<[level |-> "warn", lang |-> lang]>> \o Warnings(Tail(ids))
             ELSE Warnings(Tail(ids))

\* insertion of a code into a sorted array, after the codes it does not
\* precede (the step of a stable sort)
RECURSIVE InsertLanguage(_, _)
InsertLanguage(x, arr) ==
    IF arr = <<>> THEN <<x>>
    ELSE IF LocaleCompare(x, Head(arr)) < 0 THEN <<x>> \o arr
    ELSE <<Head(arr)>> \o InsertLanguage(x, Tail(arr))

RECURSIVE SortByLocale(_)
SortByLocale(arr) ==
    IF arr = <<>> THEN <<>>
    ELSE InsertLanguage(arr[Len(arr)], SortByLocale(SubSeq(arr, 1, Len(arr) - 1)))

\* Array.from(languages).sort((a, b) => a.localeCompare(b))
SortLanguages_Unsorted(languages) == languages
SortLanguages(languages) == SortByLocale(languages)

\* the array cached and returned when the scan finds nothing (line 49)
FallbackLanguages_Empty == <<>>
FallbackLanguages == <<DEFAULT_LANGUAGE>>

\* the console.error of lines 46-48
EmptyError == <<[level |-> "error", lang |-> <<>>]>>

\* lines 41-55: the items of the array that is cached and returned
ScanLanguages(ids) ==
    LET sortedLanguages == SortLanguages(CollectLanguages(ids, <<>>))
    IN  IF Len(sortedLanguages) = 0 THEN FallbackLanguages ELSE sortedLanguages

\* what one scan writes to the console
ScanLog(ids) ==
    Warnings(ids) \o
    (IF Len(SortLanguages(CollectLanguages(ids, <<>>))) = 0 THEN EmptyError ELSE <<>>)

(***************************************************************************)
(* Negotiation (languages.ts:62-143).                                      *)
(***************************************************************************)
\* Array.prototype.find(lang => lang === cleanCode)
Find(availableLanguages, cleanCode) ==
    IF \E i \in 1..Len(availableLanguages) : availableLanguages[i] = cleanCode
    THEN availableLanguages[CHOOSE i \in 1..Len(availableLanguages) :
                              /\ availableLanguages[i] = cleanCode
                              /\ \A j \in 1..(i - 1) : availableLanguages[j] # cleanCode]
    ELSE UNDEFINED

\* matchLanguage: code.split('-')[0].toLowerCase(), then find; a method
\* called on undefined raises
matchLanguage_CaseSensitive(code, availableLanguages) ==
    LET subtag == At(Split(code, "-"), 0)
    IN  IF subtag = UNDEFINED THEN THROWN
        ELSE Find(availableLanguages, subtag)
matchLanguage_SecondSubtag(code, availableLanguages) ==
    LET subtag == At(Split(code, "-"), 1)
    IN  IF subtag = UNDEFINED THEN THROWN
        ELSE Find(availableLanguages, ToLowerCase(subtag))
matchLanguage(code, availableLanguages) ==
    LET subtag == At(Split(code, "-"), 0)
    IN  IF subtag = UNDEFINED THEN THROWN
        ELSE Find(availableLanguages, ToLowerCase(subtag))

\* the callback of map (lines 73-79): one entry of the header
ParseEntry(lang) ==
    LET parts == Split(lang, ";")
        code == At(parts, 0)
        q == At(parts, 1)
    IN  [code |-> Trim(code),
         quality |-> IF Truthy(q) THEN ParseFloat(At(Split(q, "="), 1)) ELSE Num(1, 1)]

\* header.split(',').map(...)
ParseHeader(header) ==
    LET langs == Split(header, ",")
    IN  [i \in 1..Len(langs) |-> ParseEntry(langs[i])]

\* the comparator (a, b) => b.quality - a.quality as sort reads it: the sign
\* of the difference, and +0 when the difference is NaN
CompareQuality(a, b) ==
    IF a.quality.nan \/ b.quality.nan THEN 0
    ELSE SignOfDifference(b.quality, a.quality)

\* a comparator is consistent on the entries when its ties are transitive
\* (its strict part is one of numbers, so it is transitive anyway)
ConsistentComparator(entries) ==
    \A i, j, k \in 1..Len(entries) :
        (CompareQuality(entries[i], entries[j]) = 0 /\ CompareQuality(entries[j], entries[k]) = 0)
            => CompareQuality(entries[i], entries[k]) = 0

RECURSIVE InsertEntry(_, _)
InsertEntry(x, arr) ==
    IF arr = <<>> THEN <<x>>
    ELSE IF CompareQuality(x, Head(arr)) < 0 THEN <<x>> \o arr
    ELSE <<Head(arr)>> \o InsertEntry(x, Tail(arr))

RECURSIVE SortByQuality(_)
SortByQuality(arr) ==
    IF arr = <<>> THEN <<>>
    ELSE InsertEntry(arr[Len(arr)], SortByQuality(SubSeq(arr, 1, Len(arr) - 1)))

Reorderings(arr) ==
    LET n == Len(arr)
        bijections == {f \in [1..n -> 1..n] : \A i, j \in 1..n : f[i] = f[j] => i = j}
    IN  {[i \in 1..n |-> arr[f[i]]] : f \in bijections}

\* .sort((a, b) => b.quality - a.quality): stable by quality, descending,
\* when the comparator is consistent on the entries; otherwise ECMAScript
\* leaves the order to the implementation
SortEntries(entries) ==
    IF ConsistentComparator(entries) THEN {SortByQuality(entries)}
    ELSE Reorderings(entries)

\* the loop of lines 82-86 over the sorted entries
RECURSIVE FirstMatch(_, _)
FirstMatch(codes, availableLanguages) ==
    IF codes = <<>> THEN UNDEFINED
    ELSE LET match == matchLanguage(Head(codes), availableLanguages)
         IN  IF match = THROWN THEN THROWN
             ELSE IF Truthy(match) THEN match
             ELSE FirstMatch(Tail(codes), availableLanguages)

Codes(entries) == [i \in 1..Len(entries) |-> entries[i].code]

\* getLanguageFromHeader: the results the runtime can produce; header.split
\* raises a TypeError when header is null or undefined
getLanguageFromHeader(header, availableLanguages) ==
    IF header \in {UNDEFINED, NULL_STRING} THEN {THROWN}
    ELSE {FirstMatch(Codes(languages), availableLanguages) :
             languages \in SortEntries(ParseHeader(header))}

\* the browser's navigator object; defined = FALSE on the server
NoNavigator == [defined |-> FALSE, hasLanguages |-> FALSE, languages |-> <<>>, language |-> UNDEFINED]
Navigator(languages, language) ==
    [defined |-> TRUE, hasLanguages |-> TRUE, languages |-> languages, language |-> language]
LegacyNavigator(language) ==
    [defined |-> TRUE, hasLanguages |-> FALSE, languages |-> <<>>, language |-> language]

\* getLanguageFromBrowser
getLanguageFromBrowser(nav, availableLanguages) ==
    IF ~nav.defined THEN UNDEFINED
    ELSE LET listed == IF nav.hasLanguages
                       THEN FirstMatch(nav.languages, availableLanguages)
                       ELSE UNDEFINED
         IN  IF listed = THROWN \/ Truthy(listed) THEN listed
             ELSE IF Truthy(nav.language)
                  THEN matchLanguage(nav.language, availableLanguages)
                  ELSE UNDEFINED

\* getDefaultLanguage after its await (lines 134-142): the results the
\* runtime can produce
getDefaultLanguage_FallbackAvailable(acceptLanguageHeader, nav, availableLanguages) ==
    LET serverMatches == IF Truthy(acceptLanguageHeader)
                         THEN getLanguageFromHeader(acceptLanguageHeader, availableLanguages)
                         ELSE {UNDEFINED}
        browserMatch == getLanguageFromBrowser(nav, availableLanguages)
        Rest == IF browserMatch = THROWN \/ Truthy(browserMatch) THEN browserMatch
                ELSE IF availableLanguages # <<>> THEN Head(availableLanguages)
                ELSE DEFAULT_LANGUAGE
    IN  {IF serverMatch = THROWN \/ Truthy(serverMatch) THEN serverMatch ELSE Rest :
            serverMatch \in serverMatches}
getDefaultLanguage_HintsFirst(acceptLanguageHeader, nav, availableLanguages) ==
    LET serverMatches == IF Truthy(acceptLanguageHeader)
                         THEN getLanguageFromHeader(acceptLanguageHeader, availableLanguages)
                         ELSE {UNDEFINED}
        browserMatch == getLanguageFromBrowser(nav, availableLanguages)
    IN  IF browserMatch = THROWN \/ Truthy(browserMatch) THEN {browserMatch}
        ELSE {IF serverMatch = THROWN \/ Truthy(serverMatch) THEN serverMatch
              ELSE DEFAULT_LANGUAGE : serverMatch \in serverMatches}
getDefaultLanguage(acceptLanguageHeader, nav, availableLanguages) ==
    LET serverMatches == IF Truthy(acceptLanguageHeader)
                         THEN getLanguageFromHeader(acceptLanguageHeader, availableLanguages)
                         ELSE {UNDEFINED}
        browserMatch == getLanguageFromBrowser(nav, availableLanguages)
        Rest == IF browserMatch = THROWN \/ Truthy(browserMatch) THEN browserMatch
                ELSE DEFAULT_LANGUAGE
    IN  {IF serverMatch = THROWN \/ Truthy(serverMatch) THEN serverMatch ELSE Rest :
            serverMatch \in serverMatches}

(***************************************************************************)
(* Inputs: the content store and the Accept-Language headers.              *)
(***************************************************************************)
ja == <<"j", "a">>

\* the id of a lesson, "<lang>/lessons/<slug>.mdx" (content/config.ts:84)
LessonId(lang, slug) ==
    lang \o <<"/", "l", "e", "s", "s", "o", "n", "s", "/">> \o slug \o <<".", "m", "d", "x">>

\* the ids a store can hold, in the order the store lists them: three
\* supported languages out of order, one twice, an unsupported directory
\* and an id without a language segment
IdPool == <<LessonId(uk, <<"a">>), LessonId(en, <<"a">>), LessonId(ja, <<"a">>),
            LessonId(es, <<"a">>), LessonId(en, <<"b">>), LessonId(<<>>, <<"x">>)>>

Stores == {S \in SUBSET Elements(IdPool) : Cardinality(S) <= MaxItems}

\* the stores that hold one lesson for each of some supported languages
SupportedStores == {S \in Stores : S \subseteq {LessonId(uk, <<"a">>), LessonId(en, <<"a">>),
                                          LessonId(es, <<"a">>)}}

Reverse(arr) == [i \in 1..Len(arr) |-> arr[Len(arr) + 1 - i]]
\* the lesson files of the repository runs, in the order the store lists
\* them: a language with three lessons and a language with one
RepoPool == <<LessonId(en, <<"a">>), LessonId(es, <<"a">>), LessonId(en, <<"b">>),
              LessonId(en, <<"c">>)>>
LessonPool == IdPool \o SelectSeq(RepoPool, LAMBDA id : id \notin Elements(IdPool))
InPoolOrder(S) == SelectSeq(LessonPool, LAMBDA id : id \in S)

\* getCollection('lessons') does not promise an order
CollectionOrders(S) == {InPoolOrder(S), Reverse(InPoolOrder(S))}

\* the ids of the pages collection, "<lang>/home.mdx" and "<lang>/about.mdx"
\* (content/config.ts:106), and the orders getCollection('pages') can give
PagePool == <<en \o <<"/", "h", "o", "m", "e", ".", "m", "d", "x">>,
              en \o <<"/", "a", "b", "o", "u", "t", ".", "m", "d", "x">>>>

PageOrders == {PagePool, Reverse(PagePool)}

Q(tag, value) == tag \o <<";", "q", "=">> \o value

\* header entries: the qualities of the test at collections.test.ts:186,
\* a non-numeric quality, a region tag in upper case, a parameter without
\* '=', and the entries of the malformed headers ';' and ',,'
EntryPool == {Q(en, <<"0", ".", "7">>), Q(es, <<"0", ".", "9">>), Q(fr, <<"0", ".", "5">>),
              Q(uk, <<"x">>), <<"E", "N", "-", "U", "S">>, <<" ", "e", "s", ";", "q">>,
              <<";">>, <<>>}

\* header entries with two equal qualities, a lower one and a malformed one
TiePool == {Q(en, <<"0", ".", "7">>), Q(es, <<"0", ".", "9">>), Q(uk, <<"0", ".", "9">>),
            Q(fr, <<"x">>)}

\* header entries with a quality above 1 and one below 0, next to an entry
\* without a quality and one with a quality in the range
RangePool == {en, Q(es, <<"5">>), Q(uk, <<"-", "1">>), Q(en, <<"0", ".", "5">>)}

RECURSIVE Join(_)
Join(parts) ==
    IF Len(parts) = 1 THEN parts[1] ELSE parts[1] \o <<",">> \o Join(Tail(parts))

SeqsUpTo(pool, n) == UNION {[1..k -> pool] : k \in 1..n}

Headers ==
    {UNDEFINED, NULL_STRING, <<>>}
        \cup {Join(entries) : entries \in SeqsUpTo(EntryPool, MaxEntries)}
        \cup {Join(entries) : entries \in SeqsUpTo(TiePool, MaxTieEntries)}
        \cup {Join(entries) : entries \in SeqsUpTo(RangePool, MaxRangeEntries)}

\* header entries around a quality of 0: two entries of quality 0, one in
\* range, one without a parameter for a language no store holds, and one
\* below the range
ZeroPool == {Q(es, <<"0">>), Q(<<"E", "N", "-", "g", "b">>, <<"0", ".", "0">>), Q(uk, <<"0", ".", "5">>), ja,
             Q(uk, <<"-", "1">>)}
ZeroHeaders == {Join(entries) : entries \in SeqsUpTo(ZeroPool, MaxRangeEntries)}

Navigators ==
    {NoNavigator,
     Navigator(<<<<"f", "r", "-", "F", "R">>, <<"E", "S", "-", "m", "x">>>>, <<"f", "r", "-", "F", "R">>),
     LegacyNavigator(<<"u", "k", "-", "U", "A">>)}

\* header entries whose tags carry a region or upper-case letters, two of
\* them for languages no store of the model holds
TagPool == {<<"E", "N", "-", "U", "S">>, Q(<<"e", "s", "-", "M", "X">>, <<"0", ".", "9">>),
            <<"j", "a", "-", "J", "P">>, Q(<<"F", "r">>, <<"0", ".", "5">>),
            Q(uk, <<"0", ".", "7">>)}

TagHeaders ==
    {UNDEFINED, NULL_STRING, <<>>}
        \cup {Join(entries) : entries \in SeqsUpTo(TagPool, MaxTagEntries)}

\* navigators: none (server), a list whose second hint can match, a browser
\* without navigator.languages, a list that matches nothing before a
\* navigator.language that can match, an empty list with an empty language,
\* and a list whose two hints can both match
HintNavigators ==
    Navigators \cup
    {Navigator(<<<<"j", "a", "-", "J", "P">>>>, <<"U", "K">>),
     Navigator(<<>>, <<>>),
     Navigator(<<<<"e", "s", "-", "A", "R">>, <<"e", "n", "-", "G", "B">>>>, <<"e", "s", "-", "A", "R">>)}

\* the strings given to validateLanguage: every string of a few characters
\* that occur in codes written in another case or with a region, the
\* supported codes, and strings of the tests (collections.test.ts:226-272)
CodeAlphabet == {"e", "n", "E", "N", "-"}

LanguageCandidates ==
    UNION {[1..k -> CodeAlphabet] : k \in 0..MaxCodeLen}
        \cup Supported
        \cup {ja, <<"e", "n", "-", "U", "S">>, <<"e", "n", "!">>, <<"1", "2", "3">>}

(***************************************************************************)
(* State.                                                                  *)
(***************************************************************************)
Procs == 1..NumProcs
\* the caller of the negotiation runs
NegProc == CHOOSE p \in Procs : \A q \in Procs : p <= q

VARIABLES
    store,            \* the ids of the lessons collection in the content store
    changes,          \* how many times the store has changed
    navigator,        \* the global navigator object
    lessonsCache,     \* collections.ts:18
    cachedLanguages,  \* languages.ts:8
    log,              \* what console.warn and console.error have written
    nextRef,          \* the identity the next new array gets
    pc,               \* where each call is: idle, awaitCollection, awaitLessons,
                      \* awaitLanguages, done
    op,               \* the exported function each call entered
    lessons,          \* the local lessons of getAvailableLanguages
    ret,              \* what getAvailableLanguages returned to the call
    header,           \* the acceptLanguageHeader argument
    result,           \* what getDefaultLanguage returned, or THROWN
    pagesCache,       \* collections.ts:19
    fetched,          \* how many times getCollection has read each collection
    baseUrl,          \* import.meta.env.BASE_URL
    call,             \* the synchronous utility that was called last, with
                      \* its arguments
    value,            \* what that call returned
    props,            \* the props of LanguagePickerIsland
    isOpen,           \* ErrorBoundary.tsx:369, the value the hook holds
    rendered,         \* what the last render of LanguagePickerIsland returned
    listening,        \* the event types of the listeners on document
    pendingEffects,   \* the effects of the last render have not run yet
    fallback,         \* the fallback prop of the ErrorBoundary
    hasError,         \* ErrorBoundary.tsx:154
    error,            \* ErrorBoundary.tsx:155
    output,           \* what the last render of the ErrorBoundary returned
    events,           \* how many events have been dispatched in the document
    content,          \* the frontmatter (data) of each lesson file
    args              \* the arguments of each call of a repository function

vars == <<store, changes, navigator, lessonsCache, cachedLanguages, log, nextRef,
          pc, op, lessons, ret, header, result, pagesCache, fetched, baseUrl, call, value,
          props, isOpen, rendered, listening, pendingEffects, fallback, hasError, error,
          output, events, content, args>>

\* the state of the module-level caches, calls and utilities
moduleVars == <<store, changes, navigator, lessonsCache, cachedLanguages, log, nextRef,
                pc, op, lessons, ret, header, result, pagesCache, fetched, baseUrl, call,
                value, content, args>>

\* the state of the component tree
componentVars == <<props, isOpen, rendered, listening, pendingEffects, fallback, hasError,
                   error, output, events>>

NewArray(items) == [ref |-> nextRef, items |-> items]

\* no utility has been called
NoCall == [fn |-> "none", args |-> <<>>]

\* a root deployment
RootUrl == <<"/">>

(***************************************************************************)
(* URL builders (src/unnamed/part_004:69-119).                             *)
(***************************************************************************)
\* s.replace(/\/$/, ''): one '/' at the end of the string is removed
ReplaceTrailingSlash_Keep(s) == s
ReplaceTrailingSlash(s) ==
    IF s # <<>> /\ s[Len(s)] = "/" THEN SubSeq(s, 1, Len(s) - 1) ELSE s

\* withBase: `${base}${path}`
withBase(path) == ReplaceTrailingSlash(baseUrl) \o path

\* getLessonUrl: withBase(`/${lang}/${lessonIdOrUrl}/`)
getLessonUrl_NoTrailingSlash(lang, lessonIdOrUrl) ==
    withBase(<<"/">> \o lang \o <<"/">> \o lessonIdOrUrl)
getLessonUrl(lang, lessonIdOrUrl) ==
    withBase(<<"/">> \o lang \o <<"/">> \o lessonIdOrUrl \o <<"/">>)

\* getLanguageUrl: withBase(`/${lang}${page ? '/' + page : ''}/`)
getLanguageUrl(lang, page) ==
    withBase(<<"/">> \o lang \o (IF Truthy(page) THEN <<"/">> \o page ELSE <<>>) \o <<"/">>)

(***************************************************************************)
(* buildLanguageUrl of the language picker                                 *)
(* (src/src/components/ErrorBoundary.tsx:334-360).                         *)
(***************************************************************************)
\* s.replace(/\.\./g, ''): each pair of dots, from the left, is removed
RECURSIVE RemoveDotDot(_)
RemoveDotDot(s) ==
    IF s = <<>> THEN <<>>
    ELSE IF Len(s) >= 2 /\ s[1] = "." /\ s[2] = "." THEN RemoveDotDot(SubSeq(s, 3, Len(s)))
    ELSE <<Head(s)>> \o RemoveDotDot(Tail(s))

\* s.replace(/\/+/g, '/'): each run of slashes becomes one slash
RECURSIVE CollapseSlashes(_)
CollapseSlashes(s) ==
    IF s = <<>> THEN <<>>
    ELSE IF Len(s) >= 2 /\ s[1] = "/" /\ s[2] = "/" THEN CollapseSlashes(Tail(s))
    ELSE <<Head(s)>> \o CollapseSlashes(Tail(s))

\* String.prototype.startsWith
StartsWith(s, prefix) == Len(prefix) <= Len(s) /\ SubSeq(s, 1, Len(prefix)) = prefix

\* parts.filter(Boolean): the empty strings are dropped
FilterBoolean(parts) == SelectSeq(parts, LAMBDA part : part # <<>>)

\* Array.prototype.join('/')
RECURSIVE JoinSegments(_)
JoinSegments(segments) ==
    IF segments = <<>> THEN <<>>
    ELSE IF Len(segments) = 1 THEN segments[1]
    ELSE segments[1] \o <<"/">> \o JoinSegments(Tail(segments))

\* validLangs.includes(x), x a string or undefined
Includes(arr, x) == \E i \in 1..Len(arr) : arr[i] = x

buildLanguageUrl_Unsanitized(currentPath, lang, basePath, validLangs) ==
    LET safePath == CollapseSlashes(currentPath)
        normalizedBase == ReplaceTrailingSlash(basePath)
        pathWithoutBase ==
            IF normalizedBase # <<>> /\ StartsWith(safePath, normalizedBase)
            THEN SubSeq(safePath, Len(normalizedBase) + 1, Len(safePath))
            ELSE safePath
        pathSegments == FilterBoolean(Split(pathWithoutBase, "/"))
        firstSegment == At(pathSegments, 0)
        restSegments == IF pathSegments = <<>> THEN <<>> ELSE Tail(pathSegments)
        pathWithoutLang ==
            IF Includes(validLangs, firstSegment)
            THEN <<"/">> \o JoinSegments(restSegments)
            ELSE pathWithoutBase
    IN  CollapseSlashes(normalizedBase \o <<"/">> \o lang \o pathWithoutLang)
buildLanguageUrl(currentPath, lang, basePath, validLangs) ==
    LET safePath == CollapseSlashes(RemoveDotDot(currentPath))
        normalizedBase == ReplaceTrailingSlash(basePath)
        pathWithoutBase ==
            IF normalizedBase # <<>> /\ StartsWith(safePath, normalizedBase)
            THEN SubSeq(safePath, Len(normalizedBase) + 1, Len(safePath))
            ELSE safePath
        pathSegments == FilterBoolean(Split(pathWithoutBase, "/"))
        firstSegment == At(pathSegments, 0)
        restSegments == IF pathSegments = <<>> THEN <<>> ELSE Tail(pathSegments)
        pathWithoutLang ==
            IF Includes(validLangs, firstSegment)
            THEN <<"/">> \o JoinSegments(restSegments)
            ELSE pathWithoutBase
    IN  CollapseSlashes(normalizedBase \o <<"/">> \o lang \o pathWithoutLang)

\* the base paths of the picker: none, and a subdirectory with and without
\* a trailing slash
BasePaths == {<<>>, <<"/", "d", "o", "c", "s">>, <<"/", "d", "o", "c", "s", "/">>}

\* what follows the language in the current path: nothing, a slash, a page
\* with and without a trailing slash, two segments, a path with '..'
RestPool == {<<>>, <<"/">>, <<"/", "a">>, <<"/", "a", "/">>, <<"/", "a", "/", "b">>,
             <<"/", "a", "/", "b", "/">>, <<"/", ".", ".", "/", "a">>}

\* the paths of the current page: a base path or none, a language of the
\* picker or none, and a rest
CurrentPaths ==
    {base \o lang \o rest :
        base \in {<<>>, <<"/", "d", "o", "c", "s">>},
        lang \in {<<>>, <<"/">> \o en, <<"/">> \o uk},
        rest \in RestPool}

\* every short path of dots, slashes and a letter
PathAlphabet == {".", "/", "a"}

ShortPaths == UNION {[1..k -> PathAlphabet] : k \in 0..MaxPathLen}

\* paths that start with the letters of the base path /docs without being
\* under it
SiblingPaths == {<<"/", "d", "o", "c", "s", "x", "/", "e", "n", "/">>,
                 <<"/", "d", "o", "c", "s", ".", "a">>,
                 <<"/", "d", "o", "c", "s", "e", "n", "/", "a">>}

\* the target languages: two codes of the picker and a string that ends
\* with a dot
TargetLanguages == {es, uk, <<"e", ".">>}

\* the values of BASE_URL: a root deployment and a subdirectory with and
\* without a trailing slash
BaseUrls == {RootUrl, <<"/", "d", "o", "c", "s", "/">>, <<"/", "d", "o", "c", "s">>}

\* paths given to withBase: they start with one '/'; one has an empty segment
PathPool == {<<"/">>, <<"/", "e", "n">>, <<"/", "e", "n", "/", "a">>,
             <<"/", "e", "n", "/", "a", "/">>, <<"/", "e", "n", "/", "/", "a">>}

\* slugs of lessons and of pages; a page may be omitted or empty
SlugPool == {<<"a">>, <<"a", "-", "b">>, <<"a", "/", "b">>}
PagePoolOrNone == SlugPool \cup {UNDEFINED, <<>>}

(***************************************************************************)
(* Telemetry scrubbing (src/src/constants.ts:18-71).                       *)
(***************************************************************************)
\* the part of s before the first character of stops
RECURSIVE CutAt(_, _)
CutAt(s, stops) ==
    IF s = <<>> \/ Head(s) \in stops THEN <<>>
    ELSE <<Head(s)>> \o CutAt(Tail(s), stops)

Drop(s, n) == SubSeq(s, n + 1, Len(s))

HttpsScheme == <<"h", "t", "t", "p", "s", ":", "/", "/">>

\* new URL(s) without a base, for an https URL or a string with no scheme:
\* it throws (valid = FALSE) unless s is absolute; origin is the scheme and
\* the host, pathname the path before '?' and '#', '/' when that is empty
URL(s) ==
    LET rest == Drop(s, Len(HttpsScheme))
        host == CutAt(rest, {"/", "?", "#"})
        path == CutAt(Drop(rest, Len(host)), {"?", "#"})
    IN  IF StartsWith(s, HttpsScheme) /\ host # <<>>
        THEN [valid |-> TRUE, origin |-> HttpsScheme \o host,
              pathname |-> IF path = <<>> THEN <<"/">> ELSE path]
        ELSE [valid |-> FALSE, origin |-> <<>>, pathname |-> <<>>]

\* lines 27-39 and 45-59: the URL without search and hash, or the URL as it
\* is when it does not parse
StripQuery(url) ==
    IF URL(url).valid THEN URL(url).origin \o URL(url).pathname ELSE url

\* lines 23-40; a request that is absent has defined = FALSE
ScrubRequest(request) ==
    IF ~request.defined THEN request
    ELSE [defined |-> TRUE, cookies |-> UNDEFINED,
          url |-> IF Truthy(request.url) THEN StripQuery(request.url) ELSE request.url]

\* lines 45-60; a breadcrumb without data has url = UNDEFINED
ScrubBreadcrumb(breadcrumb) ==
    IF Truthy(breadcrumb.url) THEN [url |-> StripQuery(breadcrumb.url)] ELSE breadcrumb

\* lines 43-62
ScrubBreadcrumbs(breadcrumbs) ==
    IF breadcrumbs.defined /\ Len(breadcrumbs.items) > 0
    THEN [defined |-> TRUE,
          items |-> [i \in 1..Len(breadcrumbs.items) |-> ScrubBreadcrumb(breadcrumbs.items[i])]]
    ELSE breadcrumbs

\* lines 65-67
ScrubUser(user) ==
    IF user.defined /\ Truthy(user.email)
    THEN [defined |-> TRUE, email |-> UNDEFINED, id |-> user.id]
    ELSE user

\* the hook createSentryBeforeSend(isClient) returns, applied to an event
beforeSend(event) ==
    [request |-> ScrubRequest(event.request),
     breadcrumbs |-> ScrubBreadcrumbs(event.breadcrumbs),
     user |-> ScrubUser(event.user)]

\* the console.warn calls of lines 34-36 and 54-56
ParseWarning(context) == [level |-> "warn", context |-> context]
Unparsed(url) == Truthy(url) /\ ~URL(url).valid
RECURSIVE BreadcrumbWarnings(_)
BreadcrumbWarnings(items) ==
    IF items = <<>> THEN <<>>
    ELSE (IF Unparsed(Head(items).url) THEN <<ParseWarning("breadcrumb")>> ELSE <<>>)
         \o BreadcrumbWarnings(Tail(items))
beforeSendWarnings(isClient, prod, event) ==
    IF isClient /\ ~prod
    THEN (IF event.request.defined /\ Unparsed(event.request.url)
          THEN <<ParseWarning("request")>> ELSE <<>>)
         \o (IF event.breadcrumbs.defined THEN BreadcrumbWarnings(event.breadcrumbs.items)
             ELSE <<>>)
    ELSE <<>>

\* the URLs of events: absolute with and without query and hash, and
\* relative ones as fetch and navigation breadcrumbs carry them
RequestUrls ==
    {UNDEFINED, <<"h", "t", "t", "p", "s", ":", "/", "/", "h", "/", "p">>, <<"h", "t", "t", "p", "s", ":", "/", "/", "h", "/", "p", "?", "t">>,
     <<"h", "t", "t", "p", "s", ":", "/", "/", "h", "?", "t", "#", "x">>, <<"/", "p", "?", "t">>}
BreadcrumbUrls == {UNDEFINED, <<"h", "t", "t", "p", "s", ":", "/", "/", "h", "/", "p", "?", "t", "#", "x">>, <<"/", "p", "?", "t">>}
Emails == {UNDEFINED, <<>>, <<"a", "@", "b">>}
Absent(fields) == [f \in fields |-> IF f = "defined" THEN FALSE ELSE UNDEFINED]
Requests ==
    {Absent({"defined", "cookies", "url"})} \cup
    [defined : {TRUE}, cookies : {UNDEFINED, <<"s", "i", "d", "=", "1">>}, url : RequestUrls]
Breadcrumbs ==
    {[defined |-> FALSE, items |-> <<>>]} \cup
    [defined : {TRUE},
     items : UNION {[1..k -> [url : BreadcrumbUrls]] : k \in 0..MaxBreadcrumbs}]
Users ==
    {Absent({"defined", "email", "id"})} \cup
    [defined : {TRUE}, email : Emails, id : {<<"7">>}]
Events == [request : Requests, breadcrumbs : Breadcrumbs, user : Users]

(***************************************************************************)
(* Lesson repository (src/src/utils/lesson-repository.ts:19-126).          *)
(***************************************************************************)
\* lesson.data of the entry with this id
Data(id) == content[id]

\* `${lang}/lessons/`
LessonsPrefix(lang) == lang \o <<"/", "l", "e", "s", "s", "o", "n", "s", "/">>
MdxExtension == <<".", "m", "d", "x">>

\* String.prototype.replace(pattern, '') with a string pattern: the first
\* occurrence is removed
IndexOf(s, pattern) ==
    LET starts == {i \in 1..(Len(s) - Len(pattern) + 1) :
                      SubSeq(s, i, i + Len(pattern) - 1) = pattern}
    IN  IF starts = {} THEN 0 ELSE CHOOSE i \in starts : \A j \in starts : i <= j
Remove(s, pattern) ==
    IF IndexOf(s, pattern) = 0 THEN s
    ELSE SubSeq(s, 1, IndexOf(s, pattern) - 1)
         \o SubSeq(s, IndexOf(s, pattern) + Len(pattern), Len(s))

\* sort((a, b) => a.data.order - b.data.order): insertion after the
\* entries the new one does not precede (the step of a stable sort)
RECURSIVE InsertByOrder_BeforeEqual(_, _)
InsertByOrder_BeforeEqual(x, arr) ==
    IF arr = <<>> THEN <<x>>
    ELSE IF Data(x).order - Data(Head(arr)).order <= 0 THEN <<x>> \o arr
    ELSE <<Head(arr)>> \o InsertByOrder_BeforeEqual(x, Tail(arr))
RECURSIVE InsertByOrder(_, _)
InsertByOrder(x, arr) ==
    IF arr = <<>> THEN <<x>>
    ELSE IF Data(x).order - Data(Head(arr)).order < 0 THEN <<x>> \o arr
    ELSE <<Head(arr)>> \o InsertByOrder(x, Tail(arr))
RECURSIVE SortByOrder(_)
SortByOrder(arr) ==
    IF arr = <<>> THEN <<>>
    ELSE InsertByOrder(arr[Len(arr)], SortByOrder(SubSeq(arr, 1, Len(arr) - 1)))

\* lines 21-23: value is the array returned, lessons the array of
\* getLessons() after the call (filter copies, sort works on the copy)
getLessonsByLanguage_SortsCache(lang, entries) ==
    [value |-> SelectSeq(SortByOrder(entries),
                         LAMBDA id : StartsWith(id, LessonsPrefix(lang))),
     lessons |-> SortByOrder(entries)]
getLessonsByLanguage(lang, entries) ==
    [value |-> SortByOrder(SelectSeq(entries,
                                     LAMBDA id : StartsWith(id, LessonsPrefix(lang)))),
     lessons |-> entries]

\* lines 39-40 and 84-85: lesson.data.url || defaultSlug
Slug(lang, id) ==
    LET defaultSlug == Remove(Remove(id, LessonsPrefix(lang)), MdxExtension)
    IN  IF Truthy(Data(id).url) THEN Data(id).url ELSE defaultSlug

\* find / findIndex by slug in the sorted lessons: the first position, 0
\* for none
SlugIndex(lang, sorted, slug) ==
    LET found == {i \in 1..Len(sorted) : Slug(lang, sorted[i]) = slug}
    IN  IF found = {} THEN 0 ELSE CHOOSE i \in found : \A j \in found : i <= j

\* lines 36-42
getLessonBySlug(lang, slug, entries) ==
    LET sorted == getLessonsByLanguage(lang, entries).value
        index == SlugIndex(lang, sorted, slug)
    IN  IF index = 0 THEN UNDEFINED ELSE sorted[index]

\* Array.from(new Set(categories)): the first occurrences, in order
RECURSIVE Unique(_)
Unique(arr) ==
    IF arr = <<>> THEN <<>>
    ELSE LET init == Unique(SubSeq(arr, 1, Len(arr) - 1))
         IN  IF arr[Len(arr)] \in Elements(init) THEN init ELSE Append(init, arr[Len(arr)])

\* lines 65-67
getCategoriesByLanguage(lang, entries) ==
    LET sorted == getLessonsByLanguage(lang, entries).value
    IN  Unique([i \in 1..Len(sorted) |-> Data(sorted[i]).category])

\* a null prev or next, and { title, slug } of a lesson (lines 102-103)
NoLesson == [title |-> NULL_STRING, slug |-> NULL_STRING]
NavigationEntry(lang, id) == [title |-> Data(id).title, slug |-> Slug(lang, id)]

\* lines 80-104
getLessonNavigation_NextIsLast(lang, currentSlug, entries) ==
    LET sorted == getLessonsByLanguage(lang, entries).value
        currentIndex == SlugIndex(lang, sorted, currentSlug)
    IN  IF currentIndex = 0 THEN [prev |-> NoLesson, next |-> NoLesson]
        ELSE [prev |-> IF currentIndex > 1
                       THEN NavigationEntry(lang, sorted[currentIndex - 1]) ELSE NoLesson,
              next |-> IF currentIndex < Len(sorted)
                       THEN NavigationEntry(lang, sorted[Len(sorted)]) ELSE NoLesson]
getLessonNavigation_NoPrev(lang, currentSlug, entries) ==
    LET sorted == getLessonsByLanguage(lang, entries).value
        currentIndex == SlugIndex(lang, sorted, currentSlug)
    IN  IF currentIndex = 0 THEN [prev |-> NoLesson, next |-> NoLesson]
        ELSE [prev |-> NoLesson,
              next |-> IF currentIndex < Len(sorted)
                       THEN NavigationEntry(lang, sorted[currentIndex + 1]) ELSE NoLesson]
getLessonNavigation(lang, currentSlug, entries) ==
    LET sorted == getLessonsByLanguage(lang, entries).value
        currentIndex == SlugIndex(lang, sorted, currentSlug)
    IN  IF currentIndex = 0 THEN [prev |-> NoLesson, next |-> NoLesson]
        ELSE [prev |-> IF currentIndex > 1
                       THEN NavigationEntry(lang, sorted[currentIndex - 1]) ELSE NoLesson,
              next |-> IF currentIndex < Len(sorted)
                       THEN NavigationEntry(lang, sorted[currentIndex + 1]) ELSE NoLesson]

\* lines 113-114
getLessonCount(lang, entries) == Len(getLessonsByLanguage(lang, entries).value)

\* lines 124-125
lessonExists(lang, slug, entries) == getLessonBySlug(lang, slug, entries) # UNDEFINED

\* the exported functions that take a language, and those that take a
\* language and a slug
LanguageQueries == {"getLessonsByLanguage", "getCategoriesByLanguage", "getLessonCount"}
SlugQueries == {"getLessonBySlug", "getLessonNavigation", "lessonExists"}

\* what a call of fn with arguments a resolves to, given the array of
\* getLessons()
Resolved(fn, a, entries) ==
    CASE fn = "getLessonsByLanguage" -> getLessonsByLanguage(a[1], entries).value
      [] fn = "getCategoriesByLanguage" -> getCategoriesByLanguage(a[1], entries)
      [] fn = "getLessonCount" -> getLessonCount(a[1], entries)
      [] fn = "getLessonBySlug" -> getLessonBySlug(a[1], a[2], entries)
      [] fn = "getLessonNavigation" -> getLessonNavigation(a[1], a[2], entries)
      [] fn = "lessonExists" -> lessonExists(a[1], a[2], entries)

\* the frontmatter of the lesson files: order is a positive integer, url
\* an optional slug that may be empty (content/config.ts:59-63, 81), the
\* title names the file and the category follows the order
RepoStore == Elements(RepoPool)
Frontmatter(id, order, url) ==
    [title |-> <<"T", " ">> \o id, order |-> order, url |-> url,
     category |-> IF order = 1 THEN <<"x">> ELSE <<"y">>]
UrlSlugs == {UNDEFINED, <<>>, <<"b">>}
defaultContent == [id \in Elements(LessonPool) |-> Frontmatter(id, 1, UNDEFINED)]

\* the contents in which only the lessons of the language with three
\* lessons vary
RepoContents ==
    {[id \in Elements(LessonPool) |->
         IF StartsWith(id, LessonsPrefix(en)) /\ id \in RepoStore
         THEN Frontmatter(id, order[id], url[id]) ELSE defaultContent[id]] :
        order \in [{id \in RepoStore : StartsWith(id, LessonsPrefix(en))} -> 1..MaxOrder],
        url \in [{id \in RepoStore : StartsWith(id, LessonsPrefix(en))} -> UrlSlugs]}
RepoLanguages == {en, es, uk}
RepoSlugs == {<<"a">>, <<"b">>, <<"c">>}

(***************************************************************************)
(* Components (src/src/components/ErrorBoundary.tsx:152-186, 362-462).     *)
(***************************************************************************)
\* the element LanguagePickerIsland returns: the button with aria-expanded
\* and, when open, one menu item for each entry of availableLanguages
MenuItems(p) ==
    [i \in 1..Len(p.availableLanguages) |->
        [key |-> p.availableLanguages[i],
         href |-> buildLanguageUrl(p.currentPath, p.availableLanguages[i], p.basePath,
                                   p.availableLanguages),
         isCurrent |-> p.availableLanguages[i] = p.currentLang]]

LanguagePickerIsland(p, open) ==
    [expanded |-> open, menu |-> IF open THEN MenuItems(p) ELSE <<>>]

\* the listeners the two effects leave on document for a render with isOpen
\* = open (lines 380-382, 397-399)
Listeners(open) == IF open THEN {"mousedown", "keydown"} ELSE {}

\* ErrorBoundary.tsx:158-163
getDerivedStateFromError_NoFlag(e) == [hasError |-> FALSE, error |-> e]
getDerivedStateFromError(e) == [hasError |-> TRUE, error |-> e]

\* ErrorBoundary.tsx:169-185
render(state, fb) ==
    IF state.hasError
    THEN IF Truthy(fb) THEN "fallback" ELSE "alert"
    ELSE "children"

\* componentDidCatch: what reportError writes with console.error
ReportedError == [level |-> "error", context |-> "ErrorBoundary"]

\* the props of the component test (src/unnamed/part_007:6-16)
defaultProps ==
    [currentLang |-> en, availableLanguages |-> <<en, es, uk>>,
     currentPath |-> <<"/", "e", "n", "/", "l", "e", "s", "s", "o", "n", "/", "1">>,
     basePath |-> <<>>]

LanguageLists == {<<en>>, <<en, es>>, <<en, es, uk>>}
PickerPaths == {defaultProps.currentPath, <<"/">>}
PropsPool ==
    [currentLang : {en, es}, availableLanguages : LanguageLists,
     currentPath : PickerPaths, basePath : {<<>>, <<"/", "d", "o", "c", "s">>}]

\* fallback is an optional ComponentChildren: absent, null, an empty text
\* or an element
Fallbacks == {UNDEFINED, NULL_STRING, <<>>, <<"O", "o", "p", "s">>}
Errors == {<<"T", "e", "s", "t", " ", "E", "r", "r", "o", "r">>}
Keys == {"Escape", "Enter"}

\* <ErrorBoundary fallback={fb}><LanguagePickerIsland {...p} /></ErrorBoundary>
\* after its first render
Mount(p, fb) ==
    /\ props = p
    /\ isOpen = FALSE
    /\ rendered = LanguagePickerIsland(p, FALSE)
    /\ listening = {}
    /\ pendingEffects = TRUE
    /\ fallback = fb
    /\ hasError = FALSE
    /\ error = NULL_STRING
    /\ output = "children"
    /\ events = 0

InitCalls ==
    /\ changes = 0
    /\ lessonsCache = NULL
    /\ cachedLanguages = NULL
    /\ log = <<>>
    /\ nextRef = 1
    /\ pc = [p \in Procs |-> "idle"]
    /\ op = [p \in Procs |-> "none"]
    /\ lessons = [p \in Procs |-> NULL]
    /\ ret = [p \in Procs |-> NULL]
    /\ header = [p \in Procs |-> UNDEFINED]
    /\ result = [p \in Procs |-> UNDEFINED]
    /\ pagesCache = NULL
    /\ fetched = [lessons |-> 0, pages |-> 0]
    /\ call = NoCall
    /\ value = UNDEFINED
    /\ args = [p \in Procs |-> <<>>]

Init ==
    /\ store \in Stores
    /\ navigator = NoNavigator
    /\ baseUrl = RootUrl
    /\ InitCalls
    /\ Mount(defaultProps, UNDEFINED)
    /\ content = defaultContent

InitLive ==
    /\ store \in SupportedStores
    /\ navigator = NoNavigator
    /\ baseUrl = RootUrl
    /\ InitCalls
    /\ Mount(defaultProps, UNDEFINED)
    /\ content = defaultContent

InitNeg ==
    /\ store \in SupportedStores
    /\ navigator \in Navigators
    /\ baseUrl = RootUrl
    /\ InitCalls
    /\ Mount(defaultProps, UNDEFINED)
    /\ content = defaultContent

InitTags ==
    /\ store \in SupportedStores
    /\ navigator \in HintNavigators
    /\ baseUrl = RootUrl
    /\ InitCalls
    /\ Mount(defaultProps, UNDEFINED)
    /\ content = defaultContent

InitCollections ==
    /\ store \in SupportedStores
    /\ navigator = NoNavigator
    /\ baseUrl = RootUrl
    /\ InitCalls
    /\ Mount(defaultProps, UNDEFINED)
    /\ content = defaultContent

InitUtil ==
    /\ store = {}
    /\ navigator = NoNavigator
    /\ baseUrl \in BaseUrls
    /\ InitCalls
    /\ Mount(defaultProps, UNDEFINED)
    /\ content = defaultContent

(***************************************************************************)
(* Actions.                                                                *)
(***************************************************************************)
\* languages.ts:18
IsCached_Never(cache) == FALSE
IsCached(cache) == cache # NULL

\* where a call is once getAvailableLanguages has returned to it
AfterLanguages(kind) ==
    IF kind = "getDefaultLanguage" THEN "awaitLanguages" ELSE "done"

\* getAvailableLanguages up to its first suspension (lines 18-22, and
\* getLessons up to its await, collections.ts:27)
EnterAvailableLanguages(p, kind) ==
    IF IsCached(cachedLanguages)
    THEN /\ ret' = [ret EXCEPT ![p] = cachedLanguages]
         /\ pc' = [pc EXCEPT ![p] = AfterLanguages(kind)]
         /\ UNCHANGED lessons
    ELSE IF lessonsCache # NULL
    THEN /\ lessons' = [lessons EXCEPT ![p] = lessonsCache]
         /\ pc' = [pc EXCEPT ![p] = "awaitLessons"]
         /\ UNCHANGED ret
    ELSE /\ pc' = [pc EXCEPT ![p] = "awaitCollection"]
         /\ UNCHANGED <<lessons, ret>>

\* a call of getAvailableLanguages()
GetAvailableLanguagesCall(p) ==
    /\ pc[p] = "idle"
    /\ op' = [op EXCEPT ![p] = "getAvailableLanguages"]
    /\ EnterAvailableLanguages(p, "getAvailableLanguages")
    /\ UNCHANGED <<content, args, componentVars>>
    /\ UNCHANGED <<pagesCache, fetched, baseUrl, call, value>>
    /\ UNCHANGED <<store, changes, navigator, lessonsCache, cachedLanguages, log, nextRef,
                   header, result>>

\* a call of getDefaultLanguage(acceptLanguageHeader), up to line 132
GetDefaultLanguageCall(p, acceptLanguageHeader) ==
    /\ pc[p] = "idle"
    /\ op' = [op EXCEPT ![p] = "getDefaultLanguage"]
    /\ header' = [header EXCEPT ![p] = acceptLanguageHeader]
    /\ EnterAvailableLanguages(p, "getDefaultLanguage")
    /\ UNCHANGED <<content, args, componentVars>>
    /\ UNCHANGED <<pagesCache, fetched, baseUrl, call, value>>
    /\ UNCHANGED <<store, changes, navigator, lessonsCache, cachedLanguages, log, nextRef,
                   result>>

\* getCollection('lessons') resolves: getLessons assigns lessonsCache and
\* returns it (collections.ts:27-28)
CollectionResolves(p) ==
    /\ pc[p] = "awaitCollection"
    /\ \E items \in CollectionOrders(store) :
          /\ lessonsCache' = NewArray(items)
          /\ lessons' = [lessons EXCEPT ![p] = NewArray(items)]
    /\ nextRef' = nextRef + 1
    /\ fetched' = [fetched EXCEPT !.lessons = @ + 1]
    /\ pc' = [pc EXCEPT ![p] = "awaitLessons"]
    /\ UNCHANGED <<content, args, componentVars>>
    /\ UNCHANGED <<pagesCache, baseUrl, call, value>>
    /\ UNCHANGED <<store, changes, navigator, cachedLanguages, log, op, ret, header, result>>

\* getAvailableLanguages after its await (lines 25-55)
ScanCompletes(p) ==
    /\ pc[p] = "awaitLessons"
    /\ cachedLanguages' = NewArray(ScanLanguages(lessons[p].items))
    /\ ret' = [ret EXCEPT ![p] = NewArray(ScanLanguages(lessons[p].items))]
    /\ log' = log \o ScanLog(lessons[p].items)
    /\ nextRef' = nextRef + 1
    /\ pc' = [pc EXCEPT ![p] = AfterLanguages(op[p])]
    /\ UNCHANGED <<content, args, componentVars>>
    /\ UNCHANGED <<pagesCache, fetched, baseUrl, call, value>>
    /\ UNCHANGED <<store, changes, navigator, lessonsCache, op, lessons, header, result>>

\* getDefaultLanguage after its await (lines 134-142)
GetDefaultLanguageCompletes(p) ==
    /\ pc[p] = "awaitLanguages"
    /\ \E r \in getDefaultLanguage(header[p], navigator, ret[p].items) :
          result' = [result EXCEPT ![p] = r]
    /\ pc' = [pc EXCEPT ![p] = "done"]
    /\ UNCHANGED <<content, args, componentVars>>
    /\ UNCHANGED <<pagesCache, fetched, baseUrl, call, value>>
    /\ UNCHANGED <<store, changes, navigator, lessonsCache, cachedLanguages, log, nextRef,
                   op, lessons, ret, header>>

\* the caller takes the value; the call's locals are gone
Return(p) ==
    /\ pc[p] = "done"
    /\ pc' = [pc EXCEPT ![p] = "idle"]
    /\ op' = [op EXCEPT ![p] = "none"]
    /\ lessons' = [lessons EXCEPT ![p] = NULL]
    /\ ret' = [ret EXCEPT ![p] = NULL]
    /\ header' = [header EXCEPT ![p] = UNDEFINED]
    /\ result' = [result EXCEPT ![p] = UNDEFINED]
    /\ args' = [args EXCEPT ![p] = <<>>]
    /\ UNCHANGED <<content, componentVars>>
    /\ UNCHANGED <<pagesCache, fetched, baseUrl, call, value>>
    /\ UNCHANGED <<store, changes, navigator, lessonsCache, cachedLanguages, log, nextRef>>

\* a content file is added to or removed from the store
StoreChange ==
    /\ changes < MaxChanges
    /\ \E id \in Elements(IdPool) :
          /\ store' = IF id \in store THEN store \ {id} ELSE store \cup {id}
          /\ store' \in SupportedStores
    /\ changes' = changes + 1
    /\ UNCHANGED <<content, args, componentVars>>
    /\ UNCHANGED <<pagesCache, fetched, baseUrl, call, value>>
    /\ UNCHANGED <<navigator, lessonsCache, cachedLanguages, log, nextRef,
                   pc, op, lessons, ret, header, result>>

\* the left side of `cache ??= ...` is not null (collections.ts:27, 37)
IsFilled_Never(cache) == FALSE
IsFilled(cache) == cache # NULL

\* a call of getLessons() up to its await: a filled cache is returned at once
GetLessonsCall(p) ==
    /\ pc[p] = "idle"
    /\ op' = [op EXCEPT ![p] = "getLessons"]
    /\ IF IsFilled(lessonsCache)
       THEN /\ ret' = [ret EXCEPT ![p] = lessonsCache]
            /\ pc' = [pc EXCEPT ![p] = "done"]
       ELSE /\ pc' = [pc EXCEPT ![p] = "awaitGetCollection"]
            /\ UNCHANGED ret
    /\ UNCHANGED <<content, args, componentVars>>
    /\ UNCHANGED <<store, changes, navigator, lessonsCache, cachedLanguages, log, nextRef,
                   lessons, header, result, pagesCache, fetched, baseUrl, call, value>>

\* a call of getPages() up to its await
GetPagesCall(p) ==
    /\ pc[p] = "idle"
    /\ op' = [op EXCEPT ![p] = "getPages"]
    /\ IF IsFilled(pagesCache)
       THEN /\ ret' = [ret EXCEPT ![p] = pagesCache]
            /\ pc' = [pc EXCEPT ![p] = "done"]
       ELSE /\ pc' = [pc EXCEPT ![p] = "awaitGetCollection"]
            /\ UNCHANGED ret
    /\ UNCHANGED <<content, args, componentVars>>
    /\ UNCHANGED <<store, changes, navigator, lessonsCache, cachedLanguages, log, nextRef,
                   lessons, header, result, pagesCache, fetched, baseUrl, call, value>>

\* getCollection('lessons') resolves for a call of getLessons: the call
\* assigns lessonsCache and returns it (collections.ts:27-28)
LessonsResolve(p) ==
    /\ pc[p] = "awaitGetCollection"
    /\ op[p] = "getLessons"
    /\ \E items \in CollectionOrders(store) :
          /\ lessonsCache' = NewArray(items)
          /\ ret' = [ret EXCEPT ![p] = NewArray(items)]
    /\ nextRef' = nextRef + 1
    /\ fetched' = [fetched EXCEPT !.lessons = @ + 1]
    /\ pc' = [pc EXCEPT ![p] = "done"]
    /\ UNCHANGED <<content, args, componentVars>>
    /\ UNCHANGED <<store, changes, navigator, cachedLanguages, log, op, lessons, header,
                   result, pagesCache, baseUrl, call, value>>

\* getCollection('pages') resolves for a call of getPages (collections.ts:37-38)
PagesResolve(p) ==
    /\ pc[p] = "awaitGetCollection"
    /\ op[p] = "getPages"
    /\ \E items \in PageOrders :
          /\ pagesCache' = NewArray(items)
          /\ ret' = [ret EXCEPT ![p] = NewArray(items)]
    /\ nextRef' = nextRef + 1
    /\ fetched' = [fetched EXCEPT !.pages = @ + 1]
    /\ pc' = [pc EXCEPT ![p] = "done"]
    /\ UNCHANGED <<content, args, componentVars>>
    /\ UNCHANGED <<store, changes, navigator, cachedLanguages, log, op, lessons, header,
                   result, lessonsCache, baseUrl, call, value>>

\* a call of a repository function, up to the await of getLessons
\* (lesson-repository.ts:20 and collections.ts:27)
RepositoryCall(p, fn, a) ==
    /\ pc[p] = "idle"
    /\ op' = [op EXCEPT ![p] = fn]
    /\ args' = [args EXCEPT ![p] = a]
    /\ IF IsFilled(lessonsCache)
       THEN /\ lessons' = [lessons EXCEPT ![p] = lessonsCache]
            /\ pc' = [pc EXCEPT ![p] = "awaitGetLessons"]
       ELSE /\ pc' = [pc EXCEPT ![p] = "awaitLessonsCollection"]
            /\ UNCHANGED lessons
    /\ UNCHANGED <<content, componentVars>>
    /\ UNCHANGED <<store, changes, navigator, lessonsCache, cachedLanguages, log, nextRef,
                   ret, header, result, pagesCache, fetched, baseUrl, call, value>>

\* getCollection('lessons') resolves for getLessons inside a repository
\* function (collections.ts:27-28)
RepositoryCollectionResolves(p) ==
    /\ pc[p] = "awaitLessonsCollection"
    /\ \E items \in CollectionOrders(store) :
          /\ lessonsCache' = NewArray(items)
          /\ lessons' = [lessons EXCEPT ![p] = NewArray(items)]
    /\ nextRef' = nextRef + 1
    /\ fetched' = [fetched EXCEPT !.lessons = @ + 1]
    /\ pc' = [pc EXCEPT ![p] = "awaitGetLessons"]
    /\ UNCHANGED <<content, args, componentVars>>
    /\ UNCHANGED <<store, changes, navigator, cachedLanguages, log, op, ret, header, result,
                   pagesCache, baseUrl, call, value>>

\* the repository function after its awaits: it filters, sorts and
\* answers; the array it was given is the cached one unless the cache was
\* replaced meanwhile
RepositoryCompletes(p) ==
    /\ pc[p] = "awaitGetLessons"
    /\ result' = [result EXCEPT ![p] = Resolved(op[p], args[p], lessons[p].items)]
    /\ lessons' = [lessons EXCEPT
                      ![p].items = getLessonsByLanguage(args[p][1], lessons[p].items).lessons]
    /\ lessonsCache' =
          IF lessonsCache.ref = lessons[p].ref
          THEN [lessonsCache EXCEPT
                  !.items = getLessonsByLanguage(args[p][1], lessons[p].items).lessons]
          ELSE lessonsCache
    /\ pc' = [pc EXCEPT ![p] = "done"]
    /\ UNCHANGED <<content, args, componentVars>>
    /\ UNCHANGED <<store, changes, navigator, cachedLanguages, log, nextRef, op, ret, header,
                   pagesCache, fetched, baseUrl, call, value>>

\* a call of validateLanguage(lang)
ValidateLanguageCall(lang) ==
    /\ call = NoCall
    /\ call' = [fn |-> "validateLanguage", args |-> <<lang>>]
    /\ value' = validateLanguage(lang)
    /\ UNCHANGED <<content, args, componentVars>>
    /\ UNCHANGED <<store, changes, navigator, lessonsCache, cachedLanguages, log, nextRef,
                   pc, op, lessons, ret, header, result, pagesCache, fetched, baseUrl>>

\* a call of withBase(path)
WithBaseCall(path) ==
    /\ call = NoCall
    /\ call' = [fn |-> "withBase", args |-> <<path>>]
    /\ value' = withBase(path)
    /\ UNCHANGED <<content, args, componentVars>>
    /\ UNCHANGED <<store, changes, navigator, lessonsCache, cachedLanguages, log, nextRef,
                   pc, op, lessons, ret, header, result, pagesCache, fetched, baseUrl>>

\* a call of getLessonUrl(lang, lessonIdOrUrl)
GetLessonUrlCall(lang, lessonIdOrUrl) ==
    /\ call = NoCall
    /\ call' = [fn |-> "getLessonUrl", args |-> <<lang, lessonIdOrUrl>>]
    /\ value' = getLessonUrl(lang, lessonIdOrUrl)
    /\ UNCHANGED <<content, args, componentVars>>
    /\ UNCHANGED <<store, changes, navigator, lessonsCache, cachedLanguages, log, nextRef,
                   pc, op, lessons, ret, header, result, pagesCache, fetched, baseUrl>>

\* a call of getLanguageUrl(lang, page), page undefined when it is omitted
GetLanguageUrlCall(lang, page) ==
    /\ call = NoCall
    /\ call' = [fn |-> "getLanguageUrl", args |-> <<lang, page>>]
    /\ value' = getLanguageUrl(lang, page)
    /\ UNCHANGED <<content, args, componentVars>>
    /\ UNCHANGED <<store, changes, navigator, lessonsCache, cachedLanguages, log, nextRef,
                   pc, op, lessons, ret, header, result, pagesCache, fetched, baseUrl>>

\* a call of buildLanguageUrl(currentPath, lang, basePath, validLangs)
BuildLanguageUrlCall(currentPath, lang, basePath, validLangs) ==
    /\ call = NoCall
    /\ call' = [fn |-> "buildLanguageUrl", args |-> <<currentPath, lang, basePath, validLangs>>]
    /\ value' = buildLanguageUrl(currentPath, lang, basePath, validLangs)
    /\ UNCHANGED <<content, args, componentVars>>
    /\ UNCHANGED <<store, changes, navigator, lessonsCache, cachedLanguages, log, nextRef,
                   pc, op, lessons, ret, header, result, pagesCache, fetched, baseUrl>>

\* Sentry calls the hook of createSentryBeforeSend(isClient) with an event,
\* in a build with import.meta.env.PROD = prod
BeforeSendCall(isClient, prod, event) ==
    /\ call = NoCall
    /\ Len(log) + Len(beforeSendWarnings(isClient, prod, event)) <= MaxLog
    /\ call' = [fn |-> "beforeSend", args |-> <<isClient, prod, event>>]
    /\ value' = beforeSend(event)
    /\ log' = log \o beforeSendWarnings(isClient, prod, event)
    /\ UNCHANGED <<content, args, componentVars>>
    /\ UNCHANGED <<store, changes, navigator, lessonsCache, cachedLanguages, nextRef,
                   pc, op, lessons, ret, header, result, pagesCache, fetched, baseUrl>>

\* the caller of a utility takes the value
UtilityReturn ==
    /\ call # NoCall
    /\ call' = NoCall
    /\ value' = UNDEFINED
    /\ UNCHANGED <<content, args, componentVars>>
    /\ UNCHANGED <<store, changes, navigator, lessonsCache, cachedLanguages, log, nextRef,
                   pc, op, lessons, ret, header, result, pagesCache, fetched, baseUrl>>

\* the picker is in the document
Mounted == output = "children"

\* a click on the button: toggleDropdown (lines 406-408), with the isOpen of
\* the render the handler was created in
ToggleDropdown ==
    /\ Mounted
    /\ events < MaxEvents
    /\ events' = events + 1
    /\ isOpen' = ~rendered.expanded
    /\ UNCHANGED <<props, rendered, listening, pendingEffects, fallback, hasError, error,
                   output>>
    /\ UNCHANGED moduleVars

\* a keydown on document: handleEscape (lines 391-395) runs if the effect of
\* lines 390-404 has added it
KeyDown(key) ==
    /\ Mounted
    /\ events < MaxEvents
    /\ events' = events + 1
    /\ isOpen' = IF "keydown" \in listening /\ key = "Escape" THEN FALSE ELSE isOpen
    /\ UNCHANGED <<props, rendered, listening, pendingEffects, fallback, hasError, error,
                   output>>
    /\ UNCHANGED moduleVars

\* a mousedown on document, inside the component or outside it:
\* handleClickOutside (lines 374-378) runs if the effect of lines 373-387 has
\* added it
MouseDown(inside) ==
    /\ Mounted
    /\ events < MaxEvents
    /\ events' = events + 1
    /\ isOpen' = IF "mousedown" \in listening /\ ~inside THEN FALSE ELSE isOpen
    /\ UNCHANGED <<props, rendered, listening, pendingEffects, fallback, hasError, error,
                   output>>
    /\ UNCHANGED moduleVars

\* the re-render a changed isOpen schedules; effects of the render before
\* that have not run yet run first
RenderPicker ==
    /\ Mounted
    /\ isOpen # rendered.expanded
    /\ rendered' = LanguagePickerIsland(props, isOpen)
    /\ listening' = IF pendingEffects THEN Listeners(rendered.expanded) ELSE listening
    /\ pendingEffects' = TRUE
    /\ UNCHANGED <<props, isOpen, fallback, hasError, error, output, events>>
    /\ UNCHANGED moduleVars

\* after the paint: the cleanups and effects of the last render (deps
\* [isOpen], lines 373-404)
RunEffects ==
    /\ Mounted
    /\ pendingEffects
    /\ listening' = Listeners(rendered.expanded)
    /\ pendingEffects' = FALSE
    /\ UNCHANGED <<props, isOpen, rendered, fallback, hasError, error, output, events>>
    /\ UNCHANGED moduleVars

\* a child throws e while it renders: getDerivedStateFromError and
\* componentDidCatch (lines 158-167)
ChildThrows(e) ==
    /\ Mounted
    /\ ~hasError
    /\ hasError' = getDerivedStateFromError(e).hasError
    /\ error' = getDerivedStateFromError(e).error
    /\ log' = Append(log, ReportedError)
    /\ UNCHANGED <<props, isOpen, rendered, listening, pendingEffects, fallback, output,
                   events>>
    /\ UNCHANGED <<store, changes, navigator, lessonsCache, cachedLanguages, nextRef,
                   pc, op, lessons, ret, header, result, pagesCache, fetched, baseUrl, call,
                   value, content, args>>

\* a render of the ErrorBoundary (lines 169-185); children that are no
\* longer returned are unmounted and their effects cleaned up
ErrorBoundaryRender ==
    /\ output' = render([hasError |-> hasError, error |-> error], fallback)
    /\ output' # output
    /\ IF output' = "children"
       THEN UNCHANGED <<isOpen, rendered, listening, pendingEffects>>
       ELSE /\ isOpen' = FALSE
            /\ rendered' = LanguagePickerIsland(props, FALSE)
            /\ listening' = {}
            /\ pendingEffects' = FALSE
    /\ UNCHANGED <<props, fallback, hasError, error, events>>
    /\ UNCHANGED moduleVars

(***************************************************************************)
(* Specifications.                                                         *)
(***************************************************************************)
\* one build: concurrent calls of getAvailableLanguages over a store that
\* stays as it is
Next ==
    \/ \E p \in Procs : GetAvailableLanguagesCall(p)
    \/ \E p \in Procs : CollectionResolves(p)
    \/ \E p \in Procs : ScanCompletes(p)
    \/ \E p \in Procs : Return(p)

Spec == Init /\ [][Next]_vars

\* a long-running server: the same calls while content files come and go
NextLive ==
    \/ \E p \in Procs : GetAvailableLanguagesCall(p)
    \/ \E p \in Procs : CollectionResolves(p)
    \/ \E p \in Procs : ScanCompletes(p)
    \/ \E p \in Procs : Return(p)
    \/ StoreChange

SpecLive == InitLive /\ [][NextLive]_vars

\* calls of getDefaultLanguage, one after the other
NextNeg ==
    \/ \E h \in Headers : GetDefaultLanguageCall(NegProc, h)
    \/ CollectionResolves(NegProc)
    \/ ScanCompletes(NegProc)
    \/ GetDefaultLanguageCompletes(NegProc)
    \/ Return(NegProc)

SpecNeg == InitNeg /\ [][NextNeg]_vars

\* calls of getDefaultLanguage with region-tagged headers, in a browser or
\* on the server
NextTags ==
    \/ \E h \in TagHeaders : GetDefaultLanguageCall(NegProc, h)
    \/ CollectionResolves(NegProc)
    \/ ScanCompletes(NegProc)
    \/ GetDefaultLanguageCompletes(NegProc)
    \/ Return(NegProc)

SpecTags == InitTags /\ [][NextTags]_vars

\* calls of getDefaultLanguage with headers that hold entries of quality 0
NextZero ==
    \/ \E h \in ZeroHeaders : GetDefaultLanguageCall(NegProc, h)
    \/ CollectionResolves(NegProc)
    \/ ScanCompletes(NegProc)
    \/ GetDefaultLanguageCompletes(NegProc)
    \/ Return(NegProc)

SpecZero == InitNeg /\ [][NextZero]_vars

\* callers of getLessons and getPages, which may overlap
NextCollections ==
    \/ \E p \in Procs : GetLessonsCall(p)
    \/ \E p \in Procs : GetPagesCall(p)
    \/ \E p \in Procs : LessonsResolve(p)
    \/ \E p \in Procs : PagesResolve(p)
    \/ \E p \in Procs : Return(p)

SpecCollections == InitCollections /\ [][NextCollections]_vars

\* the synchronous utilities, called one after the other
NextUtil ==
    \/ \E lang \in LanguageCandidates : ValidateLanguageCall(lang)
    \/ \E path \in PathPool : WithBaseCall(path)
    \/ \E lang \in Supported, slug \in SlugPool : GetLessonUrlCall(lang, slug)
    \/ \E lang \in Supported, page \in PagePoolOrNone : GetLanguageUrlCall(lang, page)
    \/ \E currentPath \in CurrentPaths \cup ShortPaths \cup SiblingPaths,
          lang \in TargetLanguages, basePath \in BasePaths :
          BuildLanguageUrlCall(currentPath, lang, basePath, <<en, es, uk>>)
    \/ UtilityReturn

SpecUtil == InitUtil /\ [][NextUtil]_vars

\* the lesson repository, called by one page after the other
InitRepository ==
    /\ store = RepoStore
    /\ navigator = NoNavigator
    /\ baseUrl = RootUrl
    /\ InitCalls
    /\ Mount(defaultProps, UNDEFINED)
    /\ content \in RepoContents

NextRepository ==
    \/ \E fn \in LanguageQueries, lang \in RepoLanguages :
          RepositoryCall(NegProc, fn, <<lang>>)
    \/ \E fn \in SlugQueries, lang \in RepoLanguages, slug \in RepoSlugs :
          RepositoryCall(NegProc, fn, <<lang, slug>>)
    \/ RepositoryCollectionResolves(NegProc)
    \/ RepositoryCompletes(NegProc)
    \/ Return(NegProc)

SpecRepository == InitRepository /\ [][NextRepository]_vars

\* pages that read lessons and negotiate a language, their calls
\* overlapping
ReadContents == {c \in RepoContents : \A id \in RepoStore : c[id].url = UNDEFINED}
ReadHeaders == {UNDEFINED, Join(<<Q(uk, <<"0", ".", "7">>), <<"E", "N", "-", "U", "S">>>>)}
ReadQueries == {"getLessonsByLanguage", "getCategoriesByLanguage"}
ReadSlugQueries == {"getLessonBySlug", "getLessonNavigation"}

InitReads ==
    /\ store = RepoStore
    /\ navigator = NoNavigator
    /\ baseUrl = RootUrl
    /\ InitCalls
    /\ Mount(defaultProps, UNDEFINED)
    /\ content \in ReadContents

NextReads ==
    \/ \E p \in Procs, fn \in ReadQueries : RepositoryCall(p, fn, <<en>>)
    \/ \E p \in Procs, fn \in ReadSlugQueries : RepositoryCall(p, fn, <<en, <<"b">>>>)
    \/ \E p \in Procs : RepositoryCollectionResolves(p)
    \/ \E p \in Procs : RepositoryCompletes(p)
    \/ \E p \in Procs, h \in ReadHeaders : GetDefaultLanguageCall(p, h)
    \/ \E p \in Procs : CollectionResolves(p)
    \/ \E p \in Procs : ScanCompletes(p)
    \/ \E p \in Procs : GetDefaultLanguageCompletes(p)
    \/ \E p \in Procs : Return(p)

SpecReads == InitReads /\ [][NextReads]_vars

\* the telemetry hook, called for one event after the other
NextSentry ==
    \/ \E isClient \in BOOLEAN, prod \in BOOLEAN, event \in Events :
          BeforeSendCall(isClient, prod, event)
    \/ UtilityReturn

SpecSentry == InitUtil /\ [][NextSentry]_vars

\* the language picker inside an error boundary, in a browser
InitComponents ==
    /\ store = {}
    /\ navigator = NoNavigator
    /\ baseUrl = RootUrl
    /\ InitCalls
    /\ \E p \in PropsPool, fb \in Fallbacks : Mount(p, fb)
    /\ content = defaultContent

NextComponents ==
    \/ ToggleDropdown
    \/ \E key \in Keys : KeyDown(key)
    \/ \E inside \in BOOLEAN : MouseDown(inside)
    \/ RenderPicker
    \/ RunEffects
    \/ \E e \in Errors : ChildThrows(e)
    \/ ErrorBoundaryRender

SpecComponents == InitComponents /\ [][NextComponents]_vars

(***************************************************************************)
(* Properties of getAvailableLanguages.                                    *)
(***************************************************************************)
InFlight(p) == pc[p] \in {"awaitCollection", "awaitLessons"}

\* plain comparison of strings by their code units
CodeUnits(s) == [i \in 1..Len(s) |-> CodeUnit(s[i])]

CodeUnitCompare(a, b) == LexCompare(CodeUnits(a), CodeUnits(b))

StrictlyAscending(arr) ==
    \A i \in 1..(Len(arr) - 1) : CodeUnitCompare(arr[i], arr[i + 1]) < 0

\* no id of the array starts with a supported language code
NoSupportedPrefix(ids) == \A i \in 1..Len(ids) : LanguageOfId(ids[i]) \notin Supported

\* the ids whose leading segment is a non-empty unsupported code
UnsupportedIds(ids) ==
    {i \in 1..Len(ids) : LanguageOfId(ids[i]) # <<>> /\ LanguageOfId(ids[i]) \notin Supported}

\* C1: the list a call of getAvailableLanguages returns, and the list in the
\* cache, is strictly ascending in code-unit order (so it has no duplicate)
\* and holds supported codes only, whatever ids the store holds.
C1_SortedSupported ==
    /\ \A p \in Procs : pc[p] = "done" =>
          /\ StrictlyAscending(ret[p].items)
          /\ Elements(ret[p].items) \subseteq Supported
    /\ cachedLanguages # NULL =>
          /\ StrictlyAscending(cachedLanguages.items)
          /\ Elements(cachedLanguages.items) \subseteq Supported

\* a scan of ids that start with uk, hold a second supported language and an
\* unsupported directory has returned two codes
C1_Witness ==
    \E p \in Procs :
        /\ pc[p] = "done"
        /\ lessons[p] # NULL
        /\ Len(lessons[p].items) = 3
        /\ LanguageOfId(lessons[p].items[1]) = uk
        /\ UnsupportedIds(lessons[p].items) # {}
        /\ ret[p].items = <<en, uk>>

\* C4 as stated: once the cache is written it never changes again, and a
\* call made from then on returns that same array.
C4_NeverRecomputed ==
    [][cachedLanguages # NULL =>
          /\ cachedLanguages' = cachedLanguages
          /\ \A p \in Procs : (pc[p] = "idle" /\ pc'[p] # "idle") => ret'[p] = cachedLanguages]_vars

\* C4 amended: once the cache is written it is never reset, every call made
\* from then on returns the array that is in the cache at that moment without
\* reading the store or the lessons, and while no call that found the cache
\* empty is still in flight the cache keeps the same array.
C4_CachedOnceQuiet ==
    [][cachedLanguages # NULL =>
          /\ cachedLanguages' # NULL
          /\ \A p \in Procs : (pc[p] = "idle" /\ pc'[p] # "idle") =>
                /\ pc'[p] = "done"
                /\ ret'[p] = cachedLanguages
                /\ lessons'[p] = NULL
                /\ lessonsCache' = lessonsCache
          /\ (\A p \in Procs : ~InFlight(p)) => cachedLanguages' = cachedLanguages]_vars

\* a call has returned the cached array after the store changed to one whose
\* scan would give another list, and no call is in flight
C4_Witness ==
    /\ cachedLanguages # NULL
    /\ changes > 0
    /\ cachedLanguages.items # ScanLanguages(InPoolOrder(store))
    /\ \A p \in Procs : ~InFlight(p)
    /\ \E p \in Procs : pc[p] = "done" /\ lessons[p] = NULL /\ ret[p] = cachedLanguages

\* C5: over a store that does not change, all the calls that have completed,
\* also those that were suspended together before the cache was written,
\* have returned equal lists, and the cache holds that list.
C5_Idempotent ==
    \A p \in Procs : pc[p] = "done" =>
        /\ cachedLanguages # NULL
        /\ ret[p].items = cachedLanguages.items
        /\ \A q \in Procs : pc[q] = "done" => ret[q].items = ret[p].items

\* two calls that both fetched the collection (each found both caches empty)
\* in different orders have completed with two arrays
C5_Witness ==
    \E p, q \in Procs :
        /\ pc[p] = "done" /\ pc[q] = "done"
        /\ lessons[p] # NULL /\ lessons[q] # NULL
        /\ lessons[p].ref # lessons[q].ref
        /\ lessons[p].items # lessons[q].items
        /\ ret[p].ref # ret[q].ref
        /\ Len(ret[p].items) >= 2

\* C6: a call never returns an empty list, and a scan of ids none of which
\* starts with a supported code (or of no id at all) returns [DefaultLanguage].
C6_FallbackNonEmpty ==
    \A p \in Procs : pc[p] = "done" =>
        /\ Len(ret[p].items) >= 1
        /\ (lessons[p] # NULL /\ NoSupportedPrefix(lessons[p].items)) =>
              ret[p].items = <<DEFAULT_LANGUAGE>>

\* a scan of a store that holds only ids without a supported code has
\* returned the default language
C6_Witness ==
    \E p \in Procs :
        /\ pc[p] = "done"
        /\ lessons[p] # NULL
        /\ Len(lessons[p].items) >= 2
        /\ NoSupportedPrefix(lessons[p].items)
        /\ ret[p].items = <<en>>

\* the step in which the scan of call p completes
Scans(p) == pc[p] = "awaitLessons" /\ pc'[p] # "awaitLessons"

Count(arr, level) == Cardinality({i \in 1..Len(arr) : arr[i].level = level})

Negotiated == pc[NegProc] = "done" /\ op[NegProc] = "getDefaultLanguage"

\* the list getAvailableLanguages gave to that call
AvailableLanguages == ret[NegProc].items

\* the entries of the call's header, in header order
HeaderEntries == ParseHeader(header[NegProc])

\* the available code entry i of the header stands for, if any
MatchOf(i) == matchLanguage(HeaderEntries[i].code, AvailableLanguages)

\* the entries of the header whose base subtag is available
Matching == {i \in 1..Len(HeaderEntries) : Truthy(MatchOf(i)) /\ MatchOf(i) # THROWN}

Greater(a, b) == ~a.nan /\ ~b.nan /\ SignOfDifference(a, b) > 0
Equal(a, b) == ~a.nan /\ ~b.nan /\ SignOfDifference(a, b) = 0

\* C2 as stated: the code getDefaultLanguage returns is one of the available
\* languages (which are all supported).
C2_ReturnsAvailable ==
    Negotiated =>
        result[NegProc] \in (Elements(AvailableLanguages) \cap Supported)

\* C3: getDefaultLanguage never raises and returns a supported code, for
\* every header, malformed ones included, and every navigator; and once it
\* has its list of languages it always has a result to return.
C3_Total ==
    /\ Negotiated =>
          /\ result[NegProc] # THROWN
          /\ result[NegProc] \in Supported
    /\ pc[NegProc] = "awaitLanguages" =>
          getDefaultLanguage(header[NegProc], navigator, AvailableLanguages) # {}

\* the header ";,uk;q=x, es;q" (an empty tag, a non-numeric quality, a
\* parameter without '=') has been resolved to uk
C3_Witness ==
    /\ Negotiated
    /\ header[NegProc] = Join(<<<<";">>, Q(uk, <<"x">>), <<" ", "e", "s", ";", "q">>>>)
    /\ result[NegProc] = uk

\* C8 as stated: when some entry of the header matches, the code returned is
\* that of a matching entry than which no matching entry has a greater
\* quality.
C8_GreatestQuality ==
    (Negotiated /\ Truthy(header[NegProc]) /\ Matching # {}) =>
        \E i \in Matching :
            /\ MatchOf(i) = result[NegProc]
            /\ \A j \in Matching :
                  ~Greater(HeaderEntries[j].quality, HeaderEntries[i].quality)

\* C9 as stated: when some entry of the header matches, the code returned is
\* that of a matching entry that has no matching entry of exactly the same
\* quality to its left.
C9_LeftmostOfEquals ==
    (Negotiated /\ Truthy(header[NegProc]) /\ Matching # {}) =>
        \E i \in Matching :
            /\ MatchOf(i) = result[NegProc]
            /\ \A j \in Matching :
                  j < i => ~Equal(HeaderEntries[j].quality, HeaderEntries[i].quality)

\* the entries with every malformed quality read as 1.0
WithDefaultQuality(entries) ==
    [i \in 1..Len(entries) |->
        IF entries[i].quality.nan THEN [entries[i] EXCEPT !.quality = Num(1, 1)]
        ELSE entries[i]]

\* C10 as stated: the header resolves as it would with every malformed
\* quality replaced by 1.0, and resolving it does not raise.
C10_MalformedIsOne ==
    (Negotiated /\ Truthy(header[NegProc]) /\ Matching # {}) =>
        /\ result[NegProc] # THROWN
        /\ result[NegProc] =
              FirstMatch(Codes(SortByQuality(WithDefaultQuality(HeaderEntries))),
                         AvailableLanguages)

\* the entries of the header as they stand between the commas
RawEntries == Split(header[NegProc], ",")

InUnitRange(q) == ~q.nan /\ q.n >= 0 /\ q.n <= q.d

\* C11 as stated: every entry of a parsed header that has a numeric quality
\* has one within [0,1] (a non-numeric quality is the matter of C10), and an
\* entry without a parameter has quality exactly 1.0.
C11_QualityInRange ==
    (Negotiated /\ Truthy(header[NegProc])) =>
        \A i \in 1..Len(HeaderEntries) :
            /\ ~HeaderEntries[i].quality.nan => InUnitRange(HeaderEntries[i].quality)
            /\ FirstIndexOf(RawEntries[i], ";") = 0 => HeaderEntries[i].quality = Num(1, 1)

ToUpperCase(s) ==
    [i \in 1..Len(s) |-> IF IsLower(s[i]) THEN Upper[IndexIn(s[i], Lower)] ELSE s[i]]

\* the ways of writing a tag that differ in letter case or region only
Writings == {"upper", "lower", "region", "base"}

Rewrite(tag, writing) ==
    CASE writing = "upper" -> ToUpperCase(tag)
      [] writing = "lower" -> ToLowerCase(tag)
      [] writing = "region" -> tag \o <<"-", "G", "B">>
      [] writing = "base" -> Split(tag, "-")[1]

\* an entry of a header with its tag written another way, its parameter kept
RewriteEntry(entry, writing) ==
    LET i == FirstIndexOf(entry, ";")
    IN  IF i = 0 THEN Rewrite(entry, writing)
        ELSE Rewrite(SubSeq(entry, 1, i - 1), writing) \o SubSeq(entry, i, Len(entry))

RewriteHeader(h, writing) ==
    LET raw == Split(h, ",")
    IN  Join([i \in 1..Len(raw) |-> RewriteEntry(raw[i], writing)])

RewriteNavigator(nav, writing) ==
    [nav EXCEPT !.languages = [i \in 1..Len(nav.languages) |-> Rewrite(nav.languages[i], writing)],
                !.language = IF Truthy(nav.language) THEN Rewrite(nav.language, writing)
                             ELSE nav.language]

\* C12: a header, or a list of hints, whose tags are written in another
\* letter case or with another region (or none) resolves to the same code,
\* and each of EN-US, en-us, en and En-GB matches the available code en.
C12_BaseSubtagOnly ==
    Negotiated =>
        /\ \A writing \in Writings :
              /\ Truthy(header[NegProc]) =>
                    /\ getDefaultLanguage(RewriteHeader(header[NegProc], writing), navigator,
                                          AvailableLanguages)
                          = getDefaultLanguage(header[NegProc], navigator, AvailableLanguages)
                    /\ result[NegProc] \in
                          getDefaultLanguage(RewriteHeader(header[NegProc], writing), navigator,
                                             AvailableLanguages)
              /\ getDefaultLanguage(header[NegProc], RewriteNavigator(navigator, writing),
                                    AvailableLanguages)
                    = getDefaultLanguage(header[NegProc], navigator, AvailableLanguages)
        /\ en \in Elements(AvailableLanguages) =>
              \A tag \in {<<"E", "N", "-", "U", "S">>, <<"e", "n", "-", "u", "s">>, en,
                           <<"E", "n", "-", "G", "B">>} :
                  matchLanguage(tag, AvailableLanguages) = en

\* the header "EN-US" has been resolved to the available code en, which no
\* hint of the navigator stands for
C12_Witness ==
    /\ Negotiated
    /\ header[NegProc] = <<"E", "N", "-", "U", "S">>
    /\ en \in Elements(AvailableLanguages)
    /\ getLanguageFromBrowser(navigator, AvailableLanguages) # en
    /\ result[NegProc] = en

\* C13: a call with the empty string as header returns what the call with
\* null returns, for every navigator and every list of languages, and that
\* is what the hints alone give: the header is not parsed.
C13_EmptyAsNull ==
    (Negotiated /\ header[NegProc] \in {<<>>, NULL_STRING}) =>
        /\ getDefaultLanguage(<<>>, navigator, AvailableLanguages) = {result[NegProc]}
        /\ getDefaultLanguage(NULL_STRING, navigator, AvailableLanguages) = {result[NegProc]}
        /\ result[NegProc] =
              (IF Truthy(getLanguageFromBrowser(navigator, AvailableLanguages))
               THEN getLanguageFromBrowser(navigator, AvailableLanguages)
               ELSE DEFAULT_LANGUAGE)

\* the call with the empty header has returned the language of a hint,
\* which is not the default language
C13_Witness ==
    /\ Negotiated
    /\ header[NegProc] = <<>>
    /\ navigator.defined
    /\ result[NegProc] # DEFAULT_LANGUAGE
    /\ result[NegProc] = getLanguageFromBrowser(navigator, AvailableLanguages)

\* the text of a tag before its first '-', in lower case
BaseSubtag(tag) == ToLowerCase(Split(tag, "-")[1])

\* the platform hints in the order of preference: navigator.languages, then
\* navigator.language
Hints ==
    IF ~navigator.defined THEN <<>>
    ELSE (IF navigator.hasLanguages THEN navigator.languages ELSE <<>>)
            \o (IF Truthy(navigator.language) THEN <<navigator.language>> ELSE <<>>)

\* the hints whose base subtag is an available language
AvailableHints == {i \in 1..Len(Hints) : BaseSubtag(Hints[i]) \in Elements(AvailableLanguages)}

FirstAvailableHint == CHOOSE i \in AvailableHints : \A j \in AvailableHints : i <= j

HeaderMatches == Truthy(header[NegProc]) /\ Matching # {}

\* C14: when an entry of the header matches, the result is the code of a
\* matching entry of the header whatever the hints are; when the header is
\* absent, empty or matches nothing and some hint is available, the result is
\* the base subtag of the first available hint.
C14_FirstMatchWins ==
    Negotiated =>
        /\ HeaderMatches => \E i \in Matching : result[NegProc] = MatchOf(i)
        /\ (~HeaderMatches /\ AvailableHints # {}) =>
              result[NegProc] = BaseSubtag(Hints[FirstAvailableHint])

\* a header that matches nothing has been resolved to the second hint of
\* the navigator, the first one being unavailable
C14_Witness ==
    /\ Negotiated
    /\ Truthy(header[NegProc])
    /\ Matching = {}
    /\ AvailableHints # {}
    /\ FirstAvailableHint = 2
    /\ result[NegProc] = es

Fetching(fn) == \E p \in Procs : pc[p] = "awaitGetCollection" /\ op[p] = fn

Starts(p, fn) == pc[p] = "idle" /\ pc'[p] # "idle" /\ op'[p] = fn

\* C17 as stated: each collection is fetched at most once, every call that
\* has completed returned the array that is in the cache, which never
\* changes once it is filled.
C17_FetchedOnce ==
    [][/\ fetched'.lessons <= 1
       /\ fetched'.pages <= 1
       /\ lessonsCache # NULL => lessonsCache' = lessonsCache
       /\ pagesCache # NULL => pagesCache' = pagesCache
       /\ \A p \in Procs : (pc'[p] = "done" /\ op'[p] = "getLessons") => ret'[p] = lessonsCache'
       /\ \A p \in Procs : (pc'[p] = "done" /\ op'[p] = "getPages") => ret'[p] = pagesCache']_vars

\* C17 amended: a cache that is filled is never emptied; a call that starts
\* when its cache is filled returns the cached array at once without a fetch;
\* while no call of the function is waiting for the store, the cache keeps
\* its array and the collection is not fetched; a cache is empty exactly as
\* long as its collection has not been fetched (so only calls that started
\* before the cache was filled fetch the collection again); and a step that
\* changes one cache leaves the other as it is.
C17_CachedOnceFilled ==
    [][/\ lessonsCache # NULL =>
             /\ lessonsCache' # NULL
             /\ \A p \in Procs : Starts(p, "getLessons") =>
                   pc'[p] = "done" /\ ret'[p] = lessonsCache /\ fetched' = fetched
       /\ pagesCache # NULL =>
             /\ pagesCache' # NULL
             /\ \A p \in Procs : Starts(p, "getPages") =>
                   pc'[p] = "done" /\ ret'[p] = pagesCache /\ fetched' = fetched
       /\ ~Fetching("getLessons") =>
             lessonsCache' = lessonsCache /\ fetched'.lessons = fetched.lessons
       /\ ~Fetching("getPages") =>
             pagesCache' = pagesCache /\ fetched'.pages = fetched.pages
       /\ (lessonsCache' = NULL) = (fetched'.lessons = 0)
       /\ (pagesCache' = NULL) = (fetched'.pages = 0)
       /\ lessonsCache' # lessonsCache => pagesCache' = pagesCache
       /\ pagesCache' # pagesCache => lessonsCache' = lessonsCache]_vars

\* both collections have been fetched once, and two calls of getLessons,
\* one of which found the cache filled, have returned the cached array
C17_Witness ==
    /\ fetched = [lessons |-> 1, pages |-> 1]
    /\ pagesCache # NULL
    /\ \E p, q \in Procs :
          /\ p # q
          /\ pc[p] = "done" /\ op[p] = "getLessons" /\ ret[p] = lessonsCache
          /\ pc[q] = "done" /\ op[q] = "getLessons" /\ ret[q] = lessonsCache

(***************************************************************************)
(* Properties of the synchronous utilities.                                *)
(***************************************************************************)
Called(fn) == call.fn = fn

HasUpper(s) == \E i \in 1..Len(s) : IsUpper(s[i])

\* C16: validateLanguage(s) is true exactly when s is one of the five
\* configured codes, character for character; the empty string, a string
\* with an upper-case letter or a '-', and a string that is not two
\* characters long are all rejected.
C16_ExactSupportedCode ==
    Called("validateLanguage") =>
        LET s == call.args[1]
        IN  /\ value = (s \in {<<"e", "n">>, <<"e", "s">>, <<"u", "k">>, <<"f", "r">>, <<"d", "e">>})
            /\ (s = <<>> \/ HasUpper(s) \/ FirstIndexOf(s, "-") # 0 \/ Len(s) # 2) => value = FALSE

\* validateLanguage('EN') has returned false
C16_Witness ==
    /\ Called("validateLanguage")
    /\ call.args[1] = <<"E", "N">>
    /\ value = FALSE

\* the base path: BASE_URL without the slash at its end
BasePath == IF baseUrl[Len(baseUrl)] = "/" THEN SubSeq(baseUrl, 1, Len(baseUrl) - 1) ELSE baseUrl

EndsWith(s, t) == Len(t) <= Len(s) /\ SubSeq(s, Len(s) - Len(t) + 1, Len(s)) = t

HasDoubleSlash(s) == \E i \in 1..(Len(s) - 1) : s[i] = "/" /\ s[i + 1] = "/"

StartsWithSingleSlash(s) == s # <<>> /\ s[1] = "/" /\ (Len(s) = 1 \/ s[2] # "/")

\* C18: getLessonUrl(lang, slug) is the base path followed by /<lang>/<slug>/,
\* getLanguageUrl(lang, page) is the base path followed by /<lang>/ when
\* the page is omitted or empty and by /<lang>/<page>/ otherwise, and both
\* end with a slash.
C18_UrlShape ==
    /\ Called("getLessonUrl") =>
          /\ value = BasePath \o <<"/">> \o call.args[1] \o <<"/">> \o call.args[2] \o <<"/">>
          /\ value[Len(value)] = "/"
    /\ Called("getLanguageUrl") =>
          /\ call.args[2] \in {UNDEFINED, <<>>} =>
                value = BasePath \o <<"/">> \o call.args[1] \o <<"/">>
          /\ call.args[2] \notin {UNDEFINED, <<>>} =>
                value = BasePath \o <<"/">> \o call.args[1] \o <<"/">> \o call.args[2] \o <<"/">>
          /\ value[Len(value)] = "/"

\* getLessonUrl('uk', 'a-b') under the base /docs/ has returned /docs/uk/a-b/
C18_Witness ==
    /\ Called("getLessonUrl")
    /\ baseUrl = <<"/", "d", "o", "c", "s", "/">>
    /\ call.args = <<uk, <<"a", "-", "b">>>>
    /\ value = <<"/", "d", "o", "c", "s", "/", "u", "k", "/", "a", "-", "b", "/">>

\* C19 as stated: for a path that starts with a single '/', withBase(path)
\* contains no '//' and ends with the path.
C19_NoDoubleSlash ==
    (Called("withBase") /\ StartsWithSingleSlash(call.args[1])) =>
        /\ ~HasDoubleSlash(value)
        /\ EndsWith(value, call.args[1])

\* C19 amended: withBase(path) is the base path followed by the path, so it
\* ends with the path; for a path that starts with a single '/' it has a
\* '//' exactly when the path itself has one.
C19_CleanJoin ==
    (Called("withBase") /\ StartsWithSingleSlash(call.args[1])) =>
        /\ value = BasePath \o call.args[1]
        /\ EndsWith(value, call.args[1])
        /\ HasDoubleSlash(value) = HasDoubleSlash(call.args[1])

\* withBase('/en/a') under the base /docs/ has returned /docs/en/a
C19_Witness ==
    /\ Called("withBase")
    /\ baseUrl = <<"/", "d", "o", "c", "s", "/">>
    /\ call.args[1] = <<"/", "e", "n", "/", "a">>
    /\ value = <<"/", "d", "o", "c", "s", "/", "e", "n", "/", "a">>

HasDotDot(s) == \E i \in 1..(Len(s) - 1) : s[i] = "." /\ s[i + 1] = "."

\* the current path is the base path, then '/' and the valid language code,
\* then a rest that is empty or starts a new segment
LeadsWith(currentPath, base, code) ==
    LET lead == base \o <<"/">> \o code
    IN  /\ StartsWith(currentPath, lead)
        /\ (Len(currentPath) = Len(lead) \/ currentPath[Len(lead) + 1] = "/")

\* C20 as stated: when the current path, free of '..' and '//', is the base
\* path followed by a valid language segment and a rest, buildLanguageUrl
\* returns the base path, the target language and that rest unchanged,
\* trailing slash included.
C20_SwapsLanguageOnly ==
    Called("buildLanguageUrl") =>
        LET currentPath == call.args[1]
            lang == call.args[2]
            base == IF call.args[3] # <<>> /\ call.args[3][Len(call.args[3])] = "/"
                    THEN SubSeq(call.args[3], 1, Len(call.args[3]) - 1) ELSE call.args[3]
            validLangs == call.args[4]
        IN  \A i \in 1..Len(validLangs) :
                (/\ LeadsWith(currentPath, base, validLangs[i])
                 /\ ~HasDotDot(currentPath)
                 /\ ~HasDoubleSlash(currentPath)) =>
                    value = base \o <<"/">> \o lang
                               \o SubSeq(currentPath, Len(base) + Len(validLangs[i]) + 2,
                                         Len(currentPath))

EndsWithDot(s) == s # <<>> /\ s[Len(s)] = "."

\* C21 as stated: when the base path and the target language hold no '..',
\* the URL buildLanguageUrl returns holds neither '..' nor '//', whatever
\* the current path is.
C21_NoTraversal ==
    (Called("buildLanguageUrl") /\ ~HasDotDot(call.args[2]) /\ ~HasDotDot(call.args[3])) =>
        ~HasDotDot(value) /\ ~HasDoubleSlash(value)

\* C21 amended: the URL never holds '//'; it holds no '..' when the base
\* path holds none and the target language holds none and does not end with
\* a dot.
C21_NoTraversalForCodes ==
    Called("buildLanguageUrl") =>
        /\ ~HasDoubleSlash(value)
        /\ (~HasDotDot(call.args[2]) /\ ~EndsWithDot(call.args[2]) /\ ~HasDotDot(call.args[3]))
              => ~HasDotDot(value)

\* the current path /../a has been rewritten for es under the base /docs
\* into a URL without dots
C21_Witness ==
    /\ Called("buildLanguageUrl")
    /\ call.args[1] = <<"/", ".", ".", "/", "a">>
    /\ call.args[2] = es
    /\ call.args[3] = <<"/", "d", "o", "c", "s">>
    /\ value = <<"/", "d", "o", "c", "s", "/", "e", "s", "/", "a">>

(***************************************************************************)
(* The components.                                                         *)
(***************************************************************************)
\* the codes of the menu items, in the order they are shown
MenuKeys(menu) == [i \in 1..Len(menu) |-> menu[i].key]

\* C22: the language picker menu is closed initially; each click on the
\* button toggles it; while it is open, Escape or a mousedown outside the
\* component closes it; nothing but a click on the button opens it; and
\* while open it shows exactly one menu item for each available language.
C22_MenuTogglesAndCloses ==
    [][/\ events = 0 => ~isOpen /\ ~rendered.expanded
       /\ ToggleDropdown => (isOpen' = ~isOpen)
       /\ (isOpen /\ (KeyDown("Escape") \/ MouseDown(FALSE))) => ~isOpen'
       /\ (~isOpen /\ isOpen') => ToggleDropdown
       /\ rendered'.expanded => MenuKeys(rendered'.menu) = props.availableLanguages]_vars

\* a fallback prop that was passed: neither absent nor null
Given(fb) == fb # UNDEFINED /\ fb # NULL_STRING

\* what the claim says the boundary shows once a child has thrown
Shown(given) == IF given THEN "fallback" ELSE "alert"

HasQuery(url) == url # UNDEFINED /\ \E i \in 1..Len(url) : url[i] = "?"

\* C24: for every event the hook returns the event with request.cookies and
\* user.email removed and with the query string removed from request.url
\* and from the data.url of every breadcrumb, whatever the form of the URLs.
C24_ScrubsEveryUrl ==
    Called("beforeSend") =>
        LET event == call.args[3]
        IN  /\ value.request.defined = event.request.defined
            /\ value.breadcrumbs.defined = event.breadcrumbs.defined
            /\ Len(value.breadcrumbs.items) = Len(event.breadcrumbs.items)
            /\ value.user.defined = event.user.defined
            /\ value.user.id = event.user.id
            /\ value.request.cookies = UNDEFINED
            /\ value.user.email = UNDEFINED
            /\ ~HasQuery(value.request.url)
            /\ \A i \in 1..Len(value.breadcrumbs.items) :
                  ~HasQuery(value.breadcrumbs.items[i].url)

(***************************************************************************)
(* The lesson repository.                                                  *)
(***************************************************************************)
\* the call of fn by the page has resolved
Resolves(fn) == pc[NegProc] = "done" /\ op[NegProc] = fn

\* the array getLessons() gave the call, its language and its slug
Given2(i) == args[NegProc][i]
CachedLessons == lessons[NegProc].items
OfLanguage(lang) == {id \in Elements(CachedLessons) : StartsWith(id, LessonsPrefix(lang))}
Position(arr, x) == CHOOSE i \in 1..Len(arr) : arr[i] = x

\* the lessons of the language sorted by order, and the positions of the
\* lessons that have the slug
Sorted(lang) == getLessonsByLanguage(lang, CachedLessons).value
WithSlug(lang, slug) == {i \in 1..Len(Sorted(lang)) : Slug(lang, Sorted(lang)[i]) = slug}
FirstWithSlug(lang, slug) ==
    CHOOSE i \in WithSlug(lang, slug) : \A j \in WithSlug(lang, slug) : i <= j

\* an entry of a navigation is this lesson
IsLesson(entry, lang, id) ==
    entry.title = Data(id).title /\ entry.slug = Slug(lang, id)

\* C25: for a slug found among the lessons of a language sorted by order,
\* getLessonNavigation returns as prev the lesson immediately before the
\* lesson found and as next the lesson immediately after it; prev is null
\* exactly for the first lesson and next is null exactly for the last; for
\* a slug that is not found both are null.
C25_Neighbours ==
    Resolves("getLessonNavigation") =>
        LET lang == Given2(1)
            slug == Given2(2)
            sorted == Sorted(lang)
            nav == result[NegProc]
        IN  IF WithSlug(lang, slug) = {}
            THEN nav.prev = NoLesson /\ nav.next = NoLesson
            ELSE LET i == FirstWithSlug(lang, slug)
                 IN  /\ (nav.prev = NoLesson) = (i = 1)
                     /\ (nav.next = NoLesson) = (i = Len(sorted))
                     /\ i > 1 => IsLesson(nav.prev, lang, sorted[i - 1])
                     /\ i < Len(sorted) => IsLesson(nav.next, lang, sorted[i + 1])

\* the navigation of the middle one of three lessons, which the sort has
\* moved, has a prev and a next
C25_Witness ==
    /\ Resolves("getLessonNavigation")
    /\ Len(Sorted(Given2(1))) = 3
    /\ WithSlug(Given2(1), Given2(2)) = {2}
    /\ Sorted(Given2(1)) # SelectSeq(CachedLessons, LAMBDA id : id \in OfLanguage(Given2(1)))
    /\ result[NegProc].prev # NoLesson
    /\ result[NegProc].next # NoLesson

\* C26: getLessonsByLanguage(lang) returns exactly the cached lessons whose
\* id starts with '<lang>/lessons/', in non-decreasing data.order, lessons
\* of equal order in their collection order; getLessonCount(lang) is the
\* length of that list, and lessonExists(lang, slug) is true exactly when
\* getLessonBySlug(lang, slug) returns a lesson.
C26_FilteredAndStablySorted ==
    /\ Resolves("getLessonsByLanguage") =>
          LET list == result[NegProc]
          IN  /\ Elements(list) = OfLanguage(Given2(1))
              /\ Len(list) = Cardinality(OfLanguage(Given2(1)))
              /\ \A i, j \in 1..Len(list) :
                    i < j =>
                       /\ Data(list[i]).order <= Data(list[j]).order
                       /\ Data(list[i]).order = Data(list[j]).order =>
                             Position(CachedLessons, list[i]) < Position(CachedLessons, list[j])
    /\ Resolves("getLessonCount") =>
          /\ result[NegProc] = Cardinality(OfLanguage(Given2(1)))
          /\ result[NegProc] = Len(Sorted(Given2(1)))
    /\ Resolves("lessonExists") =>
          /\ result[NegProc] = (getLessonBySlug(Given2(1), Given2(2), CachedLessons) # UNDEFINED)
          /\ result[NegProc] = (\E id \in OfLanguage(Given2(1)) : Slug(Given2(1), id) = Given2(2))
    /\ Resolves("getLessonBySlug") =>
          (result[NegProc] # UNDEFINED) =
             (\E id \in OfLanguage(Given2(1)) : Slug(Given2(1), id) = Given2(2))

\* three lessons of a language, two of them with the same order and in
\* another place than in the collection, are returned without the lesson
\* of the other language
C26_Witness ==
    /\ Resolves("getLessonsByLanguage")
    /\ Len(result[NegProc]) = 3
    /\ Len(CachedLessons) = 4
    /\ Data(result[NegProc][2]).order = Data(result[NegProc][3]).order
    /\ Data(result[NegProc][1]).order < Data(result[NegProc][2]).order
    /\ Position(CachedLessons, result[NegProc][1]) > Position(CachedLessons, result[NegProc][3])

\* the slugs of the lessons of the language are pairwise distinct
DistinctSlugs(lang) ==
    \A i, j \in 1..Len(Sorted(lang)) :
        Slug(lang, Sorted(lang)[i]) = Slug(lang, Sorted(lang)[j]) => i = j

\* navigation is symmetric for the call that has resolved, and following
\* next from the first lesson of its language visits every lesson once,
\* in order
Symmetric ==
    LET lang == Given2(1)
        nav == result[NegProc]
    IN  /\ nav.next # NoLesson =>
              getLessonNavigation(lang, nav.next.slug, CachedLessons).prev.slug = Given2(2)
        /\ \A i \in 1..Len(Sorted(lang)) :
              LET next == getLessonNavigation(lang, Slug(lang, Sorted(lang)[i]),
                                              CachedLessons).next
              IN  IF i < Len(Sorted(lang)) THEN IsLesson(next, lang, Sorted(lang)[i + 1])
                  ELSE next = NoLesson

\* C27 as stated: for every lesson set of a language, whenever
\* getLessonNavigation(lang, a).next has slug b, getLessonNavigation(lang,
\* b).prev has slug a, and following next from the first lesson visits
\* every lesson of the language exactly once, in order.
C27_SymmetricForEverySet ==
    Resolves("getLessonNavigation") => Symmetric

\* C27 amended: the same for every lesson set of a language whose slugs
\* (data.url, or the file name when url is absent or empty) are pairwise
\* distinct.
C27_SymmetricForDistinctSlugs ==
    (Resolves("getLessonNavigation") /\ DistinctSlugs(Given2(1))) => Symmetric

\* three lessons with distinct slugs, one of them a url of the frontmatter:
\* the navigation of the first lesson has a next and no prev
C27_Witness ==
    /\ Resolves("getLessonNavigation")
    /\ DistinctSlugs(Given2(1))
    /\ Len(Sorted(Given2(1))) = 3
    /\ \E id \in OfLanguage(Given2(1)) : Truthy(Data(id).url)
    /\ WithSlug(Given2(1), Given2(2)) = {1}
    /\ result[NegProc].next # NoLesson
    /\ result[NegProc].prev = NoLesson

\* the array a cache holds is the one it held, with the same items in the
\* same order
SameArray(before, after) ==
    (before # NULL /\ after.ref = before.ref) => after.items = before.items

\* C28: read operations leave the caches unchanged: no call of
\* getDefaultLanguage, getLessonsByLanguage, getLessonBySlug,
\* getLessonNavigation or getCategoriesByLanguage changes the content or the
\* order of the cached lessons array or of the cached list of available
\* languages; a cache that is filled is never emptied.
C28_ReadsKeepCaches ==
    [][/\ SameArray(lessonsCache, lessonsCache')
       /\ SameArray(cachedLanguages, cachedLanguages')
       /\ lessonsCache # NULL => lessonsCache' # NULL
       /\ cachedLanguages # NULL => cachedLanguages' # NULL
       /\ \A p \in Procs :
             (lessons[p] # NULL /\ lessons'[p] # NULL) => SameArray(lessons[p], lessons'[p])]_vars

\* one page has the lessons of a language sorted, another has negotiated a
\* language, and the cached lessons are still in the order of the
\* collection, which is not the order of the sorted list
C28_Witness ==
    \E p, q \in Procs :
        /\ pc[p] = "done" /\ op[p] = "getLessonsByLanguage"
        /\ pc[q] = "done" /\ op[q] = "getDefaultLanguage"
        /\ lessonsCache # NULL /\ cachedLanguages # NULL
        /\ lessonsCache.items \in CollectionOrders(store)
        /\ result[p] # SelectSeq(lessonsCache.items,
                                  LAMBDA id : StartsWith(id, LessonsPrefix(en)))
        /\ Len(result[p]) = 3

(***************************************************************************)
(* Entries of quality 0.                                                   *)
(***************************************************************************)
IsZero(q) == ~q.nan /\ q.n = 0

\* in every order the sort can leave, the entries of quality 0 stand after
\* all the others
ZeroRankedLast ==
    \A sorted \in SortEntries(HeaderEntries) :
        \A a, b \in 1..Len(sorted) :
            (IsZero(sorted[a].quality) /\ ~IsZero(sorted[b].quality)) => b < a

\* C29: a header entry with quality 0 is still eligible: it is ranked last,
\* but if it is the only entry whose base subtag is available,
\* getDefaultLanguage returns it instead of falling through to the platform
\* hints or DefaultLanguage.
C29_ZeroIsEligibleAndLast ==
    (Negotiated /\ Truthy(header[NegProc])) =>
        /\ ZeroRankedLast
        /\ \A i \in 1..Len(HeaderEntries) :
              (IsZero(HeaderEntries[i].quality) /\ Matching = {i}) =>
                 result[NegProc] = MatchOf(i)

(***************************************************************************)
(* The language segment of the picker's links.                             *)
(***************************************************************************)
\* C30: for every currentPath that begins with '/', every basePath and
\* every target language, the URL buildLanguageUrl returns is the normalized
\* base path, then '/<lang>', then nothing or a '/': the first segment after
\* the base is the target language and nothing else.
C30_LanguageIsASegment ==
    (Called("buildLanguageUrl") /\ StartsWith(call.args[1], <<"/">>)) =>
        LET lead == ReplaceTrailingSlash(call.args[3]) \o <<"/">> \o call.args[2]
        IN  /\ StartsWith(value, lead)
            /\ (Len(value) = Len(lead) \/ value[Len(lead) + 1] = "/")
====
